---------------------------- MODULE Spec2Model ----------------------------
(***************************************************************************)
(* Model of the market-aggregation pipeline of the Aurora backend:         *)
(*   src/src/utils/cache.ts               in-memory TTL cache               *)
(*   src/src/services/polymarket.service.ts  upstream client, WS session    *)
(*   src/src/services/market.service.ts   normalizer, filter, enricher,     *)
(*                                        getMarkets, sync run              *)
(*   src/src/middleware/error-handler.ts  startSyncJob (scheduler)          *)
(*                                                                         *)
(* Text (slugs, tag labels, cache keys) is a sequence of one-character     *)
(* strings, so that startsWith / regular-expression tests are computed.    *)
(* Identifiers are text too (market.slug || market.id mixes them).  Times  *)
(* are milliseconds.  Prices are integers in units of 1e-6 (0.65 is        *)
(* 650000), so that toFixed(6) of a difference of two prices is exact;     *)
(* volumes and liquidity are whole numbers.                                *)
(***************************************************************************)
EXTENDS Integers, Sequences, FiniteSets, TLC

(***************************************************************************)
(* Bounds of the model                                                     *)
(***************************************************************************)
MaxTriggers == 3     \* scheduler callbacks (cron ticks + startup timer) that fire
MaxResp == 2         \* events in one upstream /events response
MaxCalls == 2        \* cache.getOrSet invocations in flight at once
MaxAdvances == 2     \* steps of the clock
MaxRequests == 2     \* Upstream Client operations in flight at once
MaxReads == 1        \* getMarkets / getMarketDetail requests of one behaviour

NoDate == 0 - 1      \* an absent (null / undefined) timestamp
NoSpread == 0 - 1    \* spread: null

(***************************************************************************)
(* Text helpers                                                            *)
(***************************************************************************)
Digits == {"0", "1", "2", "3", "4", "5", "6", "7", "8", "9"}
UpperCase == <<"A","B","C","D","E","F","G","H","I","J","K","L","M",
               "N","O","P","Q","R","S","T","U","V","W","X","Y","Z">>
LowerCase == <<"a","b","c","d","e","f","g","h","i","j","k","l","m",
               "n","o","p","q","r","s","t","u","v","w","x","y","z">>

ToLowerChar(c) ==
    IF \E i \in 1..Len(UpperCase) : UpperCase[i] = c
    THEN LowerCase[CHOOSE i \in 1..Len(UpperCase) : UpperCase[i] = c]
    ELSE c

\* String.prototype.toLowerCase
ToLower(s) == [i \in 1..Len(s) |-> ToLowerChar(s[i])]

\* s has p at position i (1-based)
HasAt(s, p, i) ==
    /\ i >= 1
    /\ i + Len(p) - 1 <= Len(s)
    /\ \A k \in 1..Len(p) : s[i + k - 1] = p[k]

\* String.prototype.startsWith
StartsWith(s, p) == HasAt(s, p, 1)

\* String.prototype.includes
Includes(s, p) == \E i \in 1..(Len(s) - Len(p) + 1) : HasAt(s, p, i)

(***************************************************************************)
(* market.service.ts: constants                                            *)
(***************************************************************************)
TagRecurring == <<"R","e","c","u","r","r","i","n","g">>
TagHideFromNew == <<"H","i","d","e"," ","F","r","o","m"," ","N","e","w">>
BLACKLIST_TAGS == {TagRecurring, TagHideFromNew}
MIN_REMAINING_MS == 60 * 60 * 1000

(***************************************************************************)
(* parseJsonArray: a raw JSON-encoded field is Null, malformed text, a     *)
(* JSON value that is not an array, or an array with its items.            *)
(***************************************************************************)
JsonArr(items) == [kind |-> "array", items |-> items]
JsonMalformed == [kind |-> "malformed", items |-> <<>>]
JsonObject == [kind |-> "object", items |-> <<>>]
JsonNull == [kind |-> "null", items |-> <<>>]

parseJsonArray(raw) ==
    IF raw.kind = "array" THEN raw.items ELSE <<>>

(***************************************************************************)
(* safeFloat: a raw numeric field is Null, a number, or a string that      *)
(* parseFloat reads as a number or as NaN ("bad").                         *)
(***************************************************************************)
NumNull == [t |-> "null", v |-> 0]
Num(n) == [t |-> "num", v |-> n]
NumStr(n) == [t |-> "str", v |-> n]
NumBad == [t |-> "nanstr", v |-> 0]

safeFloat(val) ==
    IF val.t = "null" THEN 0
    ELSE IF val.t = "nanstr" THEN 0     \* isNaN(n) ? 0 : n
    ELSE val.v


(***************************************************************************)
(* A JavaScript object used as a map (Record<string, number>): a sequence  *)
(* of key/value pairs in insertion order, keys unique.                     *)
(***************************************************************************)
ObjHas(obj, k) == \E i \in 1..Len(obj) : obj[i].k = k

\* obj[k] = v
ObjSet(obj, k, v) ==
    IF ObjHas(obj, k)
    THEN [i \in 1..Len(obj) |-> IF obj[i].k = k THEN [k |-> k, v |-> v] ELSE obj[i]]
    ELSE Append(obj, [k |-> k, v |-> v])

ObjKeys(obj) == {obj[i].k : i \in 1..Len(obj)}

\* Object.values(obj)
ObjValues(obj) == [i \in 1..Len(obj) |-> obj[i].v]

Abs(x) == IF x < 0 THEN 0 - x ELSE x

(***************************************************************************)
(* buildOutcomePrices: outcomes.forEach((outcome, i) =>                    *)
(*                        result[outcome] = safeFloat(prices[i]))          *)
(***************************************************************************)
RECURSIVE OutcomePricesFrom(_, _, _, _)
OutcomePricesFrom(outcomes, prices, i, result) ==
    IF i > Len(outcomes) THEN result
    ELSE OutcomePricesFrom(outcomes, prices, i + 1,
            ObjSet(result, outcomes[i],
                   safeFloat(IF i <= Len(prices) THEN prices[i] ELSE NumNull)))

buildOutcomePrices(outcomesRaw, pricesRaw) ==
    OutcomePricesFrom(parseJsonArray(outcomesRaw), parseJsonArray(pricesRaw), 1, <<>>)

(***************************************************************************)
(* buildTokens: tokenIds.map((token_id, i) =>                              *)
(*   ({token_id, outcome: outcomes[i] ?? (i === 0 ? "Yes" : "No")}))       *)
(***************************************************************************)
\* (mutant of buildTokens: the fallback names follow the order of the ids left
\* without a name)
buildTokensByUnmatchedOrder(clobTokenIdsRaw, outcomesRaw) ==
    LET tokenIds == parseJsonArray(clobTokenIdsRaw)
        outcomes == parseJsonArray(outcomesRaw)
    IN [i \in 1..Len(tokenIds) |->
          [token_id |-> tokenIds[i],
           outcome |-> IF i <= Len(outcomes) THEN outcomes[i]
                       ELSE IF i = Len(outcomes) + 1 THEN "Yes" ELSE "No"]]

buildTokens(clobTokenIdsRaw, outcomesRaw) ==
    LET tokenIds == parseJsonArray(clobTokenIdsRaw)
        outcomes == parseJsonArray(outcomesRaw)
    IN [i \in 1..Len(tokenIds) |->
          [token_id |-> tokenIds[i],
           outcome |-> IF i <= Len(outcomes) THEN outcomes[i]
                       ELSE IF i = 1 THEN "Yes" ELSE "No"]]

\* spread of a price map: |v0 - v1| when it has two values or more, else null
SpreadOf(prices) ==
    LET vals == ObjValues(prices)
    IN IF Len(vals) >= 2 THEN Abs(vals[1] - vals[2]) ELSE NoSpread

(***************************************************************************)
(* isRecurringMarket                                                       *)
(***************************************************************************)
Seps == {"-", "_"}

\* /[-_]<lit>[-_\d]/
IntervalMarker(slug, lit) ==
    \E i \in 1..Len(slug) :
        /\ slug[i] \in Seps
        /\ HasAt(slug, lit, i + 1)
        /\ i + Len(lit) + 1 <= Len(slug)
        /\ slug[i + Len(lit) + 1] \in Seps \cup Digits

\* /updown-\d+m/
UpdownMinutes(slug) ==
    LET lit == <<"u","p","d","o","w","n","-">>
    IN \E i \in 1..Len(slug) :
        /\ HasAt(slug, lit, i)
        /\ \E n \in 1..Len(slug) :
             /\ i + Len(lit) + n <= Len(slug)
             /\ \A k \in 0..(n - 1) : slug[i + Len(lit) + k] \in Digits
             /\ slug[i + Len(lit) + n] = "m"

\* /up-or-down.*\d+[mh]-/
UpOrDownInterval(slug) ==
    LET lit == <<"u","p","-","o","r","-","d","o","w","n">>
    IN \E i \in 1..Len(slug) :
        /\ HasAt(slug, lit, i)
        /\ \E j \in (i + Len(lit))..Len(slug) :
             /\ slug[j] \in Digits
             /\ j + 2 <= Len(slug)
             /\ slug[j + 1] \in {"m", "h"}
             /\ slug[j + 2] = "-"

isRecurringMarket(market, tagLabels) ==
    \/ \E i \in 1..Len(tagLabels) : tagLabels[i] \in BLACKLIST_TAGS
    \/ LET slug == ToLower(market.slug)
       IN \/ IntervalMarker(slug, <<"5","m">>)
          \/ IntervalMarker(slug, <<"1","5","m">>)
          \/ IntervalMarker(slug, <<"1","h">>)
          \/ IntervalMarker(slug, <<"6","h">>)
          \/ UpdownMinutes(slug)
          \/ UpOrDownInterval(slug)

(***************************************************************************)
(* shouldShowMarket                                                        *)
(***************************************************************************)
SpreadPrefix == <<"s","p","r","e","a","d",":">>

\* (mutant of shouldShowMarket: without the minimum-remaining-time test)
shouldShowMarketAnyRemaining(market, category, now) ==
    LET volume == safeFloat(market.volume)
        volume24h == safeFloat(market.volume24hr)
        liquidity == safeFloat(market.liquidity)
    IN /\ category = "Sports" =>
            /\ ~(volume = 0 /\ volume24h = 0 /\ liquidity < 10)
            /\ ~(StartsWith(ToLower(market.question), SpreadPrefix)
                 /\ liquidity < 10)
       /\ category \in {"Trending", "All"} =>
            ~(volume = 0 /\ volume24h = 0 /\ liquidity = 0)

shouldShowMarket(market, category, now) ==
    LET volume == safeFloat(market.volume)
        volume24h == safeFloat(market.volume24hr)
        liquidity == safeFloat(market.liquidity)
        remaining == market.endDate - now
    IN /\ ~(market.endDate # NoDate /\ remaining > 0 /\ remaining < MIN_REMAINING_MS)
       /\ category = "Sports" =>
            /\ ~(volume = 0 /\ volume24h = 0 /\ liquidity < 10)
            /\ ~(StartsWith(ToLower(market.question), SpreadPrefix)
                 /\ liquidity < 10)
       /\ category \in {"Trending", "All"} =>
            ~(volume = 0 /\ volume24h = 0 /\ liquidity = 0)


(***************************************************************************)
(* Raw upstream records (GammaEventMarket, GammaEvent), the fields the     *)
(* pipeline reads.                                                         *)
(***************************************************************************)
RawMarket(id, conditionId, slug, active, closed, tags, endDate, vol, vol24, liq, outcomes, prices, tokenIds) ==
    [id |-> id, conditionId |-> conditionId, slug |-> slug,
     question |-> <<"Q">>, active |-> active, closed |-> closed, tags |-> tags,
     endDate |-> endDate, volume |-> vol, volume24hr |-> vol24, liquidity |-> liq,
     outcomes |-> outcomes, outcomePrices |-> prices, clobTokenIds |-> tokenIds]

RawEvent(id, slug, closed, archived, tags, isNew, markets) ==
    [id |-> id, slug |-> slug, closed |-> closed, archived |-> archived,
     tags |-> tags, category |-> <<>>, new |-> isNew, featured |-> FALSE,
     volume |-> Num(0), volume24hr |-> Num(0), liquidity |-> Num(0),
     markets |-> markets]

\* a || b on strings and on numbers
OrText(a, b) == IF Len(a) > 0 THEN a ELSE b
OrNum(a, b) == IF a # 0 THEN a ELSE b

\* [...new Set(seq)]: first occurrences, in order
RECURSIVE UniqueFrom(_, _, _)
UniqueFrom(seq, i, acc) ==
    IF i > Len(seq) THEN acc
    ELSE UniqueFrom(seq, i + 1,
            IF \E k \in 1..Len(acc) : acc[k] = seq[i] THEN acc ELSE Append(acc, seq[i]))

Unique(seq) == UniqueFrom(seq, 1, <<>>)

(***************************************************************************)
(* mapTagsToCategory: the if-chain over allText.includes(keyword), as the  *)
(* categories in the order they are tested, each with its keywords.        *)
(***************************************************************************)
CategoryKeywords ==
  <<
     [name |-> "Crypto",
      keywords |->
        <<<<"c","r","y","p","t","o">>,
          <<"b","i","t","c","o","i","n">>,
          <<"e","t","h","e","r","e","u","m">>,
          <<"d","e","f","i">>,
          <<"b","l","o","c","k","c","h","a","i","n">>,
          <<"n","f","t">>,
          <<"b","t","c">>,
          <<"e","t","h">>,
          <<"s","o","l","a","n","a">>,
          <<"x","r","p">>,
          <<"d","o","g","e">>,
          <<"b","n","b">>,
          <<"a","l","t","c","o","i","n">>>>],
     [name |-> "Politics",
      keywords |->
        <<<<"p","o","l","i","t","i","c","s">>,
          <<"e","l","e","c","t","i","o","n","s">>,
          <<"g","o","v","e","r","n","m","e","n","t">>,
          <<"t","r","u","m","p">>,
          <<"p","r","e","s","i","d","e","n","t">>,
          <<"c","o","n","g","r","e","s","s">>,
          <<"s","e","n","a","t","e">>,
          <<"g","e","o","p","o","l","i","t">>,
          <<"w","a","r">>,
          <<"i","r","a","n">>,
          <<"r","u","s","s","i","a">>,
          <<"n","a","t","o">>,
          <<"t","a","r","i","f","f">>,
          <<"s","a","n","c","t","i","o","n">>,
          <<"m","i","l","i","t","a","r","y">>,
          <<"c","e","a","s","e","f","i","r","e">>,
          <<"e","l","e","c","t","i","o","n">>,
          <<"v","o","t","e">>,
          <<"d","e","m","o","c","r","a","t">>,
          <<"r","e","p","u","b","l","i","c","a","n">>>>],
     [name |-> "Sports",
      keywords |->
        <<<<"s","p","o","r","t","s">>,
          <<"n","b","a">>,
          <<"n","f","l">>,
          <<"n","h","l">>,
          <<"m","l","b">>,
          <<"s","o","c","c","e","r">>,
          <<"f","o","o","t","b","a","l","l">>,
          <<"t","e","n","n","i","s">>,
          <<"u","f","c">>,
          <<"m","m","a">>,
          <<"g","o","l","f">>,
          <<"e","s","p","o","r","t","s">>,
          <<"d","o","t","a"," ","2">>,
          <<"f","o","r","m","u","l","a"," ","1">>,
          <<"f","o","r","m","u","l","a"," ","e">>,
          <<"f","1"," ">>,
          <<"p","r","e","m","i","e","r"," ","l","e","a","g","u","e">>,
          <<"c","h","a","m","p","i","o","n","s"," ","l","e","a","g","u","e">>,
          <<"n","c","a","a">>,
          <<"w","n","b","a">>,
          <<"s","e","r","i","e"," ","a">>,
          <<"b","u","n","d","e","s","l","i","g","a">>,
          <<"l","a"," ","l","i","g","a">>,
          <<"l","i","g","u","e"," ","1">>,
          <<"b","a","s","e","b","a","l","l">>,
          <<"b","a","s","k","e","t","b","a","l","l">>,
          <<"c","r","i","c","k","e","t">>,
          <<"r","u","g","b","y">>>>],
     [name |-> "Economy",
      keywords |->
        <<<<"e","c","o","n","o","m","y">>,
          <<"e","c","o","n","o","m","i","c">>,
          <<"f","i","n","a","n","c","e">>,
          <<"f","i","n","a","n","c","i","a","l">>,
          <<"s","t","o","c","k">>,
          <<"f","e","d"," ","r","a","t","e">>,
          <<"i","n","t","e","r","e","s","t"," ","r","a","t","e">>,
          <<"i","n","f","l","a","t","i","o","n">>,
          <<"g","d","p">>,
          <<"r","e","c","e","s","s","i","o","n">>,
          <<"f","o","r","e","x">>,
          <<"b","o","n","d">>,
          <<"t","r","e","a","s","u","r","y">>,
          <<"i","p","o">>,
          <<"s","&","p">>,
          <<"n","a","s","d","a","q">>,
          <<"d","o","w"," ","j","o","n","e","s">>,
          <<"f","e","d","e","r","a","l"," ","r","e","s","e","r","v","e">>,
          <<"u","n","e","m","p","l","o","y","m","e","n","t">>,
          <<"t","r","a","d","e"," ","w","a","r">>,
          <<"t","a","r","i","f","f">>>>],
     [name |-> "Technology",
      keywords |->
        <<<<"t","e","c","h","n","o","l","o","g","y">>,
          <<"t","e","c","h">>,
          <<"a","i"," ">>,
          <<"a","r","t","i","f","i","c","i","a","l"," ","i","n","t","e","l","l","i","g","e","n","c","e">>,
          <<"o","p","e","n","a","i">>,
          <<"c","h","a","t","g","p","t">>,
          <<"a","p","p","l","e">>,
          <<"g","o","o","g","l","e">>,
          <<"m","i","c","r","o","s","o","f","t">>,
          <<"m","e","t","a"," ">>,
          <<"t","e","s","l","a">>,
          <<"n","v","i","d","i","a">>,
          <<"s","t","a","r","t","u","p">>,
          <<"s","o","f","t","w","a","r","e">>,
          <<"h","a","r","d","w","a","r","e">>,
          <<"c","h","i","p">>,
          <<"s","e","m","i","c","o","n","d","u","c","t","o","r">>>>],
     [name |-> "Culture",
      keywords |->
        <<<<"c","u","l","t","u","r","e">>,
          <<"e","n","t","e","r","t","a","i","n","m","e","n","t">>,
          <<"c","e","l","e","b","r","i","t","y">>,
          <<"m","o","v","i","e">>,
          <<"m","u","s","i","c">>,
          <<"a","w","a","r","d">>,
          <<"o","s","c","a","r">>,
          <<"g","r","a","m","m","y">>,
          <<"t","v"," ","s","h","o","w">>,
          <<"n","e","t","f","l","i","x">>,
          <<"p","o","p"," ","c","u","l","t","u","r","e">>,
          <<"v","i","r","a","l">>,
          <<"m","e","m","e">>,
          <<"g","a","m","e"," ","s","h","o","w">>,
          <<"r","e","a","l","i","t","y"," ","t","v">>>>]
  >>

\* arr.join(" ")
RECURSIVE JoinSpace(_)
JoinSpace(texts) ==
    IF texts = <<>> THEN <<>>
    ELSE IF Len(texts) = 1 THEN texts[1]
    ELSE texts[1] \o <<" ">> \o JoinSpace(Tail(texts))

MatchesAny(allText, keywords) ==
    \E k \in 1..Len(keywords) : Includes(allText, keywords[k])

\* the first if of the chain, from the k-th on, whose test succeeds; after the
\* last: return "Trending"
RECURSIVE CategoryFrom(_, _)
CategoryFrom(allText, k) ==
    IF k > Len(CategoryKeywords) THEN "Trending"
    ELSE IF MatchesAny(allText, CategoryKeywords[k].keywords)
         THEN CategoryKeywords[k].name
         ELSE CategoryFrom(allText, k + 1)

\* (mutant of mapTagsToCategory: the keywords are looked up without toLowerCase)
mapTagsToCategoryCaseSensitive(tags, rawCategory) ==
    CategoryFrom(JoinSpace(Append(tags, rawCategory)), 1)

\* rawCategory is a text, empty when undefined (rawCategory ?? "")
mapTagsToCategory(tags, rawCategory) ==
    CategoryFrom(ToLower(JoinSpace(Append(tags, rawCategory))), 1)

(***************************************************************************)
(* transformEventMarket                                                    *)
(***************************************************************************)
transformEventMarket(market, event) ==
    LET outcomePrices == buildOutcomePrices(market.outcomes, market.outcomePrices)
    IN [id |-> OrText(market.conditionId, market.id),
        polymarketId |-> market.id,
        slug |-> OrText(market.slug, market.id),
        eventSlug |-> event.slug,
        question |-> market.question,
        category |-> mapTagsToCategory(Unique(event.tags \o market.tags), event.category),
        tags |-> Unique(event.tags \o market.tags),
        outcomes |-> parseJsonArray(market.outcomes),
        outcomePrices |-> outcomePrices,
        tokens |-> buildTokens(market.clobTokenIds, market.outcomes),
        volume |-> OrNum(safeFloat(market.volume), safeFloat(event.volume)),
        volume24h |-> OrNum(safeFloat(market.volume24hr), safeFloat(event.volume24hr)),
        liquidity |-> OrNum(safeFloat(market.liquidity), safeFloat(event.liquidity)),
        spread |-> SpreadOf(outcomePrices),
        active |-> market.active,
        closed |-> market.closed,
        featured |-> event.featured,
        isNew |-> event.new,
        endDate |-> market.endDate,
        eventId |-> event.id]

(***************************************************************************)
(* processEvents: the accumulator is [markets, ids] (the admitted list and *)
(* the seen-identity set).                                                 *)
(***************************************************************************)
ProcessAdmits(market, event, category, now) ==
    /\ market.active /\ ~market.closed
    /\ ~isRecurringMarket(market, Unique(event.tags \o market.tags))
    /\ ~(category = "Sports" /\ market.endDate # NoDate /\ market.endDate < now)
    /\ ~(market.endDate # NoDate /\ market.endDate < now
         /\ safeFloat(market.volume24hr) = 0)
    /\ shouldShowMarket(market, category, now)

\* (mutant of PushUnseen: a later record of a seen identity replaces the first)
PushKeepLast(acc, transformed) ==
    IF transformed.id \in acc.ids
    THEN [markets |-> [k \in 1..Len(acc.markets) |->
                         IF acc.markets[k].id = transformed.id THEN transformed
                         ELSE acc.markets[k]],
          ids |-> acc.ids]
    ELSE [markets |-> Append(acc.markets, transformed),
          ids |-> acc.ids \cup {transformed.id}]

\* if (!ids.has(transformed.id)) { ids.add(transformed.id); markets.push(transformed) }
PushUnseen(acc, transformed) ==
    IF transformed.id \in acc.ids THEN acc
    ELSE [markets |-> Append(acc.markets, transformed),
          ids |-> acc.ids \cup {transformed.id}]

RECURSIVE ProcessMarketsFrom(_, _, _, _, _)
ProcessMarketsFrom(event, i, category, now, acc) ==
    IF i > Len(event.markets) THEN acc
    ELSE ProcessMarketsFrom(event, i + 1, category, now,
            IF ProcessAdmits(event.markets[i], event, category, now)
            THEN PushUnseen(acc, transformEventMarket(event.markets[i], event))
            ELSE acc)

RECURSIVE ProcessEventsFrom(_, _, _, _, _)
ProcessEventsFrom(events, i, category, now, acc) ==
    IF i > Len(events) THEN acc
    ELSE ProcessEventsFrom(events, i + 1, category, now,
            IF Len(events[i].markets) = 0 \/ events[i].closed \/ events[i].archived
            THEN acc
            ELSE ProcessMarketsFrom(events[i], 1, category, now, acc))

processEvents(events, category, now) ==
    ProcessEventsFrom(events, 1, category, now, [markets |-> <<>>, ids |-> {}]).markets

(***************************************************************************)
(* syncMarketsFromPolymarket, the body of one category's events.forEach:   *)
(* its own admission test, then the shared seenIds / allMarkets.           *)
(***************************************************************************)
SyncAdmits(market, event) ==
    /\ market.active /\ ~market.closed
    /\ ~isRecurringMarket(market, event.tags)

RECURSIVE SyncMarketsFrom(_, _, _)
SyncMarketsFrom(event, i, acc) ==
    IF i > Len(event.markets) THEN acc
    ELSE SyncMarketsFrom(event, i + 1,
            IF SyncAdmits(event.markets[i], event)
            THEN PushUnseen(acc, transformEventMarket(event.markets[i], event))
            ELSE acc)

RECURSIVE SyncEventsFrom(_, _, _)
SyncEventsFrom(events, i, acc) ==
    IF i > Len(events) THEN acc
    ELSE SyncEventsFrom(events, i + 1,
            IF events[i].closed \/ events[i].archived THEN acc
            ELSE SyncMarketsFrom(events[i], 1, acc))


(***************************************************************************)
(* cache.ts: the store is a map from key to [data, expiresAt]               *)
(***************************************************************************)
Drop(st, keys) == [k \in (DOMAIN st) \ keys |-> st[k]]

\* (mutant of deleteByPrefix: only the key that equals the prefix is deleted)
deleteByPrefixExactKey(st, prefix) ==
    Drop(st, {k \in DOMAIN st : k = prefix})

\* cache.deleteByPrefix
deleteByPrefix(st, prefix) ==
    Drop(st, {k \in DOMAIN st : StartsWith(k, prefix)})

\* JavaScript values held by the cache and returned by producers: null, or a
\* value with its content; NoValue stands for "nothing yet"
JsNull == [kind |-> "null", items |-> <<>>]
JsValue(x) == [kind |-> "value", items |-> x]
NoValue == [kind |-> "none", items |-> <<>>]

\* what cache.get(key) returns at time t, and the store it leaves
cacheGet(st, key, t) ==
    IF key \notin DOMAIN st THEN [val |-> JsNull, st |-> st]
    ELSE IF t > st[key].expiresAt THEN [val |-> JsNull, st |-> Drop(st, {key})]
    ELSE [val |-> st[key].data, st |-> st]

\* cache.set(key, data, ttl) at time t
cacheSet(st, key, data, ttl, t) ==
    [k \in (DOMAIN st) \cup {key} |->
        IF k = key THEN [data |-> data, expiresAt |-> t + ttl * 1000] ELSE st[k]]

PrefixMarkets == <<"m","a","r","k","e","t","s",":">>
PrefixMarket == <<"m","a","r","k","e","t",":">>

(***************************************************************************)
(* State                                                                   *)
(***************************************************************************)
VARIABLES
    isRunning,     \* sync-markets job: let isRunning
    nTrig,         \* scheduler callbacks fired so far (callback i is run[i])
    startupFired,  \* the setTimeout(..., 3000) callback has fired
    run,           \* per callback: its position and the locals of its sync run
    syncLog,       \* sync_logs rows, in insertion order
    dbEvents,      \* events rows [id, slug]
    dbMarkets,     \* markets rows [id, polymarketId, slug, eventId, lastSyncedAt]
    store,         \* cache.ts: const store = new Map()
    now,           \* Date.now()
    catalog,       \* the events the upstream catalog can serve
    nAdv,          \* clock steps taken
    call,          \* cache.getOrSet invocations in flight, per slot
    up,            \* Upstream Client operations in flight, per slot
    rd             \* getMarkets / getMarketDetail requests, per slot

schedVars == <<isRunning, nTrig, startupFired, run>>
dbVars == <<syncLog, dbEvents, dbMarkets>>
upVars == <<up>>
otherVars == <<nAdv, call, upVars, rd>>
syncVars == <<isRunning, nTrig, startupFired, run, syncLog, dbEvents, dbMarkets, catalog>>
vars == <<isRunning, nTrig, startupFired, run, syncLog, dbEvents, dbMarkets,
          store, now, catalog, nAdv, call, up, rd>>

RunIds == 1..MaxTriggers

(***************************************************************************)
(* Upstream responses of GET /events: up to MaxResp events of the catalog  *)
(***************************************************************************)
RECURSIVE SeqsUpTo(_, _)
SeqsUpTo(S, n) ==
    IF n = 0 THEN {<<>>}
    ELSE LET shorter == SeqsUpTo(S, n - 1)
         IN shorter \cup {Append(q, x) : q \in shorter, x \in S}

Responses == SeqsUpTo(catalog, MaxResp)

(***************************************************************************)
(* syncMarketsFromPolymarket: const syncCategoryConfig                     *)
(***************************************************************************)
syncCategoryConfig ==
    <<"Trending", "Politics", "Crypto", "Economy", "Sports", "Technology", "Culture">>

\* noFetch: no fetch of the run has returned (each one so far threw, was logged
\* by the catch of the loop and skipped)
IdleRun ==
    [pc |-> "idle", kind |-> "none", cat |-> 0, noFetch |-> FALSE,
     all |-> [markets |-> <<>>, ids |-> {}],
     evPending |-> {}, task |-> <<>>, count |-> 0, thrown |-> "none"]

\* uniqueEvents: eventId -> the first market of the batch that names it
uniqueEvents(allMarkets) ==
    {i \in 1..Len(allMarkets) :
        /\ Len(allMarkets[i].eventId) > 0
        /\ \A k \in 1..(i - 1) : allMarkets[k].eventId # allMarkets[i].eventId}

\* stamp is the lastSyncedAt of the write the task has issued: new Date() of
\* updateData, then new Date() of the create
NewTask == [pc |-> "update", idExists |-> "pending", slugExists |-> "pending",
            res |-> "none", stamp |-> 0]

Settled(t) == t.pc \in {"fulfilled", "rejected"}

(***************************************************************************)
(* startSyncJob: the cron callback and the startup timer callback          *)
(***************************************************************************)
\* (mutant of TickSkips: the cron callback without its isRunning guard)
TickNeverSkips == FALSE

\* cron callback: if (isRunning) { warn; return }
TickSkips == isRunning

\* startup timer: if (isRunning) return
TimerSkips == isRunning

\* isRunning = true; await syncMarketsFromPolymarket() runs to its first await,
\* the fetch of the first category
StartRun(i, kind) ==
    /\ isRunning' = TRUE
    /\ run' = [run EXCEPT ![i] = [IdleRun EXCEPT !.pc = "fetch", !.kind = kind, !.cat = 1,
                                                 !.noFetch = TRUE]]

SkipRun(i, kind) ==
    /\ run' = [run EXCEPT ![i] = [IdleRun EXCEPT !.pc = "skipped", !.kind = kind]]
    /\ UNCHANGED isRunning

CronTick ==
    /\ nTrig < MaxTriggers
    /\ nTrig' = nTrig + 1
    /\ IF TickSkips THEN SkipRun(nTrig + 1, "cron") ELSE StartRun(nTrig + 1, "cron")
    /\ UNCHANGED <<startupFired, dbVars, store, now, catalog, otherVars>>

StartupTimer ==
    /\ ~startupFired
    /\ nTrig < MaxTriggers
    /\ startupFired' = TRUE
    /\ nTrig' = nTrig + 1
    /\ IF TimerSkips THEN SkipRun(nTrig + 1, "startup") ELSE StartRun(nTrig + 1, "startup")
    /\ UNCHANGED <<dbVars, store, now, catalog, otherVars>>

\* (mutant of CallbackFinish: the flag is reset after the await, not in a finally)
CallbackFinishNoFinally(i) ==
    /\ run[i].pc \in {"returned", "threw"}
    /\ run' = [run EXCEPT ![i] = [IdleRun EXCEPT !.pc = "done", !.kind = run[i].kind,
                                                 !.thrown = run[i].thrown]]
    /\ isRunning' = (run[i].pc = "threw")
    /\ UNCHANGED <<nTrig, startupFired, dbVars, store, now, catalog, otherVars>>

\* try { ... } catch { log } finally { isRunning = false }
CallbackFinish(i) ==
    /\ run[i].pc \in {"returned", "threw"}
    /\ run' = [run EXCEPT ![i] = [IdleRun EXCEPT !.pc = "done", !.kind = run[i].kind,
                                                 !.thrown = run[i].thrown]]
    /\ isRunning' = FALSE
    /\ UNCHANGED <<nTrig, startupFired, dbVars, store, now, catalog, otherVars>>


(***************************************************************************)
(* syncMarketsFromPolymarket, one step per await                           *)
(***************************************************************************)
\* (mutant of FetchReturn: a fetch that throws is not caught in the loop and
\* enters the catch block of the run)
FetchReturnNoCatch(i) ==
    /\ run[i].pc = "fetch"
    /\ \E ok \in BOOLEAN : \E resp \in (IF ok THEN Responses ELSE {<<>>}) :
         LET acc == IF ok THEN SyncEventsFrom(resp, 1, run[i].all) ELSE run[i].all
             last == run[i].cat = Len(syncCategoryConfig)
         IN run' = IF ~ok
                   THEN [run EXCEPT ![i].pc = "logFailed", ![i].thrown = "fetchError"]
                   ELSE [run EXCEPT ![i].all = acc,
                               ![i].cat = @ + 1,
                               ![i].noFetch = FALSE,
                               ![i].pc = IF last THEN "events" ELSE "fetch",
                               ![i].evPending =
                                   IF last THEN uniqueEvents(acc.markets) ELSE {}]
    /\ UNCHANGED <<isRunning, nTrig, startupFired, dbVars, store, now, catalog, otherVars>>

\* for (const cat of syncCategoryConfig): await fetchGammaEvents(...) returns or
\* throws (caught, logged, next category); after the last category the event
\* upserts of the batch are issued
FetchReturn(i) ==
    /\ run[i].pc = "fetch"
    /\ \E ok \in BOOLEAN : \E resp \in (IF ok THEN Responses ELSE {<<>>}) :
         LET acc == IF ok THEN SyncEventsFrom(resp, 1, run[i].all) ELSE run[i].all
             last == run[i].cat = Len(syncCategoryConfig)
         IN run' = [run EXCEPT ![i].all = acc,
                               ![i].cat = @ + 1,
                               ![i].noFetch = @ /\ ~ok,
                               ![i].pc = IF last THEN "events" ELSE "fetch",
                               ![i].evPending =
                                   IF last THEN uniqueEvents(acc.markets) ELSE {}]
    /\ UNCHANGED <<isRunning, nTrig, startupFired, dbVars, store, now, catalog, otherVars>>

\* prisma.event.upsert({where: {id}, create: {id, slug: eventSlug || eventId, ...},
\*                      update: {active, closed}}) settles
EventUpsertDone(i, k) ==
    /\ run[i].pc = "events"
    /\ k \in run[i].evPending
    /\ \E dbOk \in BOOLEAN :
         LET m == run[i].all.markets[k]
             row == [id |-> m.eventId, slug |-> OrText(m.eventSlug, m.eventId)]
         IN dbEvents' =
              IF dbOk /\ ~(\E r \in dbEvents : r.id = row.id \/ r.slug = row.slug)
              THEN dbEvents \cup {row}
              ELSE dbEvents
    /\ run' = [run EXCEPT ![i].evPending = @ \ {k}]
    /\ UNCHANGED <<isRunning, nTrig, startupFired, syncLog, dbMarkets, store, now, catalog, otherVars>>

\* (mutant of StartMarkets: the event upserts are not awaited)
StartMarketsNoAwait(i) ==
    /\ run[i].pc = "events"
    /\ run' = [run EXCEPT ![i].pc = "markets",
                          ![i].task = [t \in 1..Len(run[i].all.markets) |->
                                         [NewTask EXCEPT !.stamp = now]]]
    /\ UNCHANGED <<isRunning, nTrig, startupFired, dbVars, store, now, catalog, otherVars>>

\* await Promise.allSettled(event upserts) resumes: every market task starts and
\* runs to its first await (updateMany)
StartMarkets(i) ==
    /\ run[i].pc = "events"
    /\ run[i].evPending = {}
    /\ run' = [run EXCEPT ![i].pc = "markets",
                          ![i].task = [t \in 1..Len(run[i].all.markets) |->
                                         [NewTask EXCEPT !.stamp = now]]]
    /\ UNCHANGED <<isRunning, nTrig, startupFired, dbVars, store, now, catalog, otherVars>>

\* prisma.market.updateMany({where: {polymarketId}}) settles
UpdateManyDone(i, t) ==
    /\ run[i].pc = "markets"
    /\ t \in 1..Len(run[i].task)
    /\ run[i].task[t].pc = "update"
    /\ \E dbOk \in BOOLEAN :
         LET d == run[i].all.markets[t]
             count == Cardinality({r \in dbMarkets : r.polymarketId = d.polymarketId})
         IN /\ run' = [run EXCEPT ![i].task[t] =
                         IF ~dbOk THEN [@ EXCEPT !.pc = "rejected"]
                         ELSE IF count = 0 THEN [@ EXCEPT !.pc = "find"]
                         ELSE [@ EXCEPT !.pc = "fulfilled", !.res = "updated"]]
            /\ dbMarkets' =
                  IF ~dbOk THEN dbMarkets
                  ELSE {IF r.polymarketId = d.polymarketId
                        THEN [r EXCEPT !.lastSyncedAt = run[i].task[t].stamp]
                        ELSE r : r \in dbMarkets}
    /\ UNCHANGED <<isRunning, nTrig, startupFired, syncLog, dbEvents, store, now, catalog, otherVars>>

\* after Promise.all([findUnique(id), findUnique(slug)]):
\* if (idExists || slugExists) return "skipped"; else issue create
AfterFind(task, at) ==
    IF task.idExists = "pending" \/ task.slugExists = "pending" THEN task
    ELSE IF task.idExists = "yes" \/ task.slugExists = "yes"
         THEN [task EXCEPT !.pc = "fulfilled", !.res = "skipped"]
         ELSE [task EXCEPT !.pc = "create", !.stamp = at]

\* prisma.market.findUnique({where: {id: d.id}}) settles
FindIdDone(i, t) ==
    /\ run[i].pc = "markets"
    /\ t \in 1..Len(run[i].task)
    /\ run[i].task[t].pc = "find"
    /\ run[i].task[t].idExists = "pending"
    /\ \E dbOk \in BOOLEAN :
         LET d == run[i].all.markets[t]
             found == \E r \in dbMarkets : r.id = d.id
         IN run' = [run EXCEPT ![i].task[t] =
                      IF ~dbOk THEN [@ EXCEPT !.pc = "rejected"]
                      ELSE AfterFind([@ EXCEPT !.idExists = IF found THEN "yes" ELSE "no"],
                                     now)]
    /\ UNCHANGED <<isRunning, nTrig, startupFired, dbVars, store, now, catalog, otherVars>>

\* prisma.market.findUnique({where: {slug: d.slug}}) settles
FindSlugDone(i, t) ==
    /\ run[i].pc = "markets"
    /\ t \in 1..Len(run[i].task)
    /\ run[i].task[t].pc = "find"
    /\ run[i].task[t].slugExists = "pending"
    /\ \E dbOk \in BOOLEAN :
         LET d == run[i].all.markets[t]
             found == \E r \in dbMarkets : r.slug = d.slug
         IN run' = [run EXCEPT ![i].task[t] =
                      IF ~dbOk THEN [@ EXCEPT !.pc = "rejected"]
                      ELSE AfterFind([@ EXCEPT !.slugExists = IF found THEN "yes" ELSE "no"],
                                     now)]
    /\ UNCHANGED <<isRunning, nTrig, startupFired, dbVars, store, now, catalog, otherVars>>

\* the markets row of a canonical market (the columns the constraints read)
MarketRow(d, at) ==
    [id |-> d.id, polymarketId |-> d.polymarketId, slug |-> d.slug, eventId |-> d.eventId,
     lastSyncedAt |-> at]

\* the markets table: primary key id, unique polymarketId, unique slug,
\* foreign key eventId -> events.id
InsertAllowed(row) ==
    /\ ~(\E r \in dbMarkets :
            r.id = row.id \/ r.polymarketId = row.polymarketId \/ r.slug = row.slug)
    /\ \E e \in dbEvents : e.id = row.eventId

\* prisma.market.create({data: {...}}) settles
CreateDone(i, t) ==
    /\ run[i].pc = "markets"
    /\ t \in 1..Len(run[i].task)
    /\ run[i].task[t].pc = "create"
    /\ \E dbOk \in BOOLEAN :
         LET d == run[i].all.markets[t]
             row == MarketRow(d, run[i].task[t].stamp)
         IN IF dbOk /\ InsertAllowed(row)
            THEN /\ dbMarkets' = dbMarkets \cup {row}
                 /\ run' = [run EXCEPT ![i].task[t] =
                              [@ EXCEPT !.pc = "fulfilled", !.res = "created"]]
            ELSE /\ dbMarkets' = dbMarkets
                 /\ run' = [run EXCEPT ![i].task[t] = [@ EXCEPT !.pc = "rejected"]]
    /\ UNCHANGED <<isRunning, nTrig, startupFired, syncLog, dbEvents, store, now, catalog, otherVars>>

\* results.filter((r) => r.status === "fulfilled").length
Succeeded(tasks) == Cardinality({t \in 1..Len(tasks) : tasks[t].pc = "fulfilled"})

\* (mutant of JoinMarkets: Promise.all instead of Promise.allSettled, the first
\* rejected task throws into the catch block)
JoinMarketsFailFast(i) ==
    /\ run[i].pc = "markets"
    /\ IF \E t \in 1..Len(run[i].task) : run[i].task[t].pc = "rejected"
       THEN /\ run' = [run EXCEPT ![i].pc = "logFailed", ![i].thrown = "upsertError"]
            /\ store' = store
       ELSE /\ \A t \in 1..Len(run[i].task) : Settled(run[i].task[t])
            /\ run' = [run EXCEPT ![i].count = Succeeded(run[i].task),
                                  ![i].pc = "logSuccess"]
            /\ store' = deleteByPrefix(deleteByPrefix(store, PrefixMarkets), PrefixMarket)
    /\ UNCHANGED <<isRunning, nTrig, startupFired, dbVars, now, catalog, otherVars>>

\* await Promise.allSettled(market tasks) resumes: count = succeeded, the cache
\* is invalidated and syncLog.create({status: "success"}) is issued
JoinMarkets(i) ==
    /\ run[i].pc = "markets"
    /\ \A t \in 1..Len(run[i].task) : Settled(run[i].task[t])
    /\ run' = [run EXCEPT ![i].count = Succeeded(run[i].task), ![i].pc = "logSuccess"]
    /\ store' = deleteByPrefix(deleteByPrefix(store, PrefixMarkets), PrefixMarket)
    /\ UNCHANGED <<isRunning, nTrig, startupFired, dbVars, now, catalog, otherVars>>

\* syncLog.create({type: "markets", status: "success", count, duration}) settles;
\* a rejection enters the catch block, which issues syncLog.create({status: "failed"})
LogSuccessDone(i) ==
    /\ run[i].pc = "logSuccess"
    /\ \E dbOk \in BOOLEAN :
         IF dbOk
         THEN /\ syncLog' = Append(syncLog, [run |-> i, status |-> "success",
                                            count |-> run[i].count, error |-> "none"])
              /\ run' = [run EXCEPT ![i].pc = "returned"]
         ELSE /\ syncLog' = syncLog
              /\ run' = [run EXCEPT ![i].pc = "logFailed", ![i].thrown = "successLogError"]
    /\ UNCHANGED <<isRunning, nTrig, startupFired, dbEvents, dbMarkets, store, now, catalog, otherVars>>

\* (mutant of LogFailedDone: a catch block that re-throws without recording)
LogFailedDoneNoRow(i) ==
    /\ run[i].pc = "logFailed"
    /\ run' = [run EXCEPT ![i].pc = "threw"]
    /\ UNCHANGED <<isRunning, nTrig, startupFired, dbVars, store, now, catalog, otherVars>>

\* catch (err): syncLog.create({status: "failed", count, duration, error: message})
\* settles, then throw err; a rejection of this create escapes instead of err
LogFailedDone(i) ==
    /\ run[i].pc = "logFailed"
    /\ \E dbOk \in BOOLEAN :
         IF dbOk
         THEN /\ syncLog' = Append(syncLog, [run |-> i, status |-> "failed",
                                            count |-> run[i].count,
                                            error |-> run[i].thrown])
              /\ run' = [run EXCEPT ![i].pc = "threw"]
         ELSE /\ syncLog' = syncLog
              /\ run' = [run EXCEPT ![i].pc = "threw", ![i].thrown = "failedLogError"]
    /\ UNCHANGED <<isRunning, nTrig, startupFired, dbEvents, dbMarkets, store, now, catalog, otherVars>>

(***************************************************************************)
(* Catalogs.  The scheduler specification serves one event with one market; *)
(* the single-run specification serves two events and three markets, the   *)
(* market of the second event having the slug of the first market of the   *)
(* first.                                                                  *)
(***************************************************************************)
YesNo == JsonArr(<<"Yes", "No">>)
Prices6535 == JsonArr(<<NumStr(650000), NumStr(350000)>>)
TokA == <<"t","o","k","e","n","-","A","-","0","0","1">>
TokB == <<"t","o","k","e","n","-","B","-","0","0","2">>
T0 == 100 * MIN_REMAINING_MS      \* the time the clock starts at
Later == T0 + 2 * MIN_REMAINING_MS
NoTokens == JsonNull

PlainMarket(id, conditionId, slug) ==
    RawMarket(id, conditionId, slug, TRUE, FALSE, <<>>, T0 + 2 * MIN_REMAINING_MS,
              NumStr(100), Num(10), NumStr(50), YesNo, Prices6535,
              JsonArr(<<TokA, TokB>>))

Event1(markets) ==
    RawEvent(<<"e","1">>, <<"e","v","-","1">>, FALSE, FALSE, <<>>, FALSE, markets)
Event2(markets) ==
    RawEvent(<<"e","2">>, <<"e","v","-","2">>, FALSE, FALSE, <<>>, FALSE, markets)

Market1 == PlainMarket(<<"m","1">>, <<"c","1">>, <<"s","1">>)
Market2 == PlainMarket(<<"m","2">>, <<"c","2">>, <<"s","2">>)
Market3 == PlainMarket(<<"m","3">>, <<"c","3">>, <<"s","1">>)

SchedCatalog == {Event1(<<Market1>>)}
RunCatalog == {Event1(<<Market1, Market2>>), Event2(<<Market3>>)}

Key(prefix, rest) == prefix \o rest
PrefixOrderbook == <<"o","r","d","e","r","b","o","o","k",":">>

\* a getOrSet call: its position and arguments, what it found at its start
\* (the entry, and how many sync runs had invalidated the cache), whether it
\* invoked its producer, and its result
IdleCall ==
    [pc |-> "idle", key |-> <<>>, ttl |-> 0, startEntry |-> "none", startData |-> NoValue,
     startEpoch |-> 0, invoked |-> FALSE, result |-> NoValue]

CallIds == 1..MaxCalls

IdleReq == [pc |-> "idle", op |-> "none", resp |-> "none", value |-> "none", logged |-> FALSE]

ReqIds == 1..MaxRequests

NoParams == [category |-> "none", limit |-> 0, offset |-> 0, search |-> <<>>]

\* a session: the socket's state, the ids asked for, the snapshots, and the
\* timeout and ping timers
NoSession == [state |-> "none", tokenIds |-> <<>>, prices |-> <<>>,
              timeout |-> "none", ping |-> "none"]

\* a tag id that is undefined
NoTagId == 0 - 1

\* no /events request issued
NoReq == [limit |-> 0, closed |-> "absent", tag_id |-> NoTagId,
          related_tags |-> "absent", order |-> <<>>]

IdleRead ==
    [pc |-> "idle", op |-> "none", params |-> NoParams, key |-> <<>>, at |-> 0,
     events |-> <<>>, all |-> <<>>, pre |-> <<>>, ws |-> NoSession,
     hit |-> FALSE, result |-> NoValue, req |-> NoReq]

ReadIds == 1..MaxReads

InitOther ==
    /\ nAdv = 0
    /\ call = [c \in CallIds |-> IdleCall]
    /\ up = [r \in ReqIds |-> IdleReq]
    /\ rd = [r \in ReadIds |-> IdleRead]

InitSched ==
    /\ isRunning = FALSE
    /\ nTrig = 0
    /\ startupFired = FALSE
    /\ run = [i \in RunIds |-> IdleRun]

InitDb ==
    /\ syncLog = <<>>
    /\ dbEvents = {}
    /\ dbMarkets = {}

Init ==
    /\ InitSched
    /\ InitDb
    /\ store = <<>>
    /\ now = T0
    /\ catalog = SchedCatalog
    /\ InitOther

SyncStep(i) ==
    \/ FetchReturn(i)
    \/ \E k \in run[i].evPending : EventUpsertDone(i, k)
    \/ StartMarkets(i)
    \/ \E t \in 1..Len(run[i].task) : UpdateManyDone(i, t)
    \/ \E t \in 1..Len(run[i].task) : FindIdDone(i, t)
    \/ \E t \in 1..Len(run[i].task) : FindSlugDone(i, t)
    \/ \E t \in 1..Len(run[i].task) : CreateDone(i, t)
    \/ JoinMarkets(i)
    \/ LogSuccessDone(i)
    \/ LogFailedDone(i)
    \/ CallbackFinish(i)

Next ==
    \/ CronTick
    \/ StartupTimer
    \/ \E i \in RunIds : SyncStep(i)

Spec == Init /\ [][Next]_vars

(***************************************************************************)
(* One sync run over the two-event catalog: every callback but the last    *)
(* has finished, and the tables hold what earlier runs left.               *)
(***************************************************************************)
EarlierTables ==
    LET e1 == Event1(<<Market1, Market2>>)
        row1 == MarketRow(transformEventMarket(Market1, e1), T0 - MIN_REMAINING_MS)
        ev1 == [id |-> e1.id, slug |-> e1.slug]
    IN {[events |-> {}, markets |-> {}],
        [events |-> {ev1}, markets |-> {}],
        [events |-> {ev1}, markets |-> {row1}]}

InitRun ==
    /\ isRunning = FALSE
    /\ nTrig = MaxTriggers - 1
    /\ startupFired = TRUE
    /\ run = [i \in RunIds |-> IF i < MaxTriggers THEN [IdleRun EXCEPT !.pc = "done"]
                                ELSE IdleRun]
    /\ syncLog = <<>>
    /\ \E tables \in EarlierTables :
         /\ dbEvents = tables.events
         /\ dbMarkets = tables.markets
    /\ store = <<>>
    /\ now = T0
    /\ catalog = RunCatalog
    /\ InitOther

NextRun ==
    \/ CronTick
    \/ \E i \in RunIds : SyncStep(i)

SpecRun == InitRun /\ [][NextRun]_vars


(***************************************************************************)
(* cache.getOrSet, one step per await.  A producer resolves with a value   *)
(* (null included) or rejects.                                             *)
(***************************************************************************)
CacheKeys == {Key(PrefixMarkets, <<"a">>)}
TTLs == {5, 60}
CACHE_TTL == 60
Data == {JsValue(<<"v1">>), JsNull}
ClockSteps == {1, 5 * 1000}

EntryState(st, key, t) ==
    IF key \notin DOMAIN st THEN "absent"
    ELSE IF t > st[key].expiresAt THEN "expired"
    ELSE "fresh"

\* the sync runs that have passed their cache.deleteByPrefix calls
InvalidationsDone ==
    Cardinality({i \in RunIds :
                    run[i].pc \in {"logSuccess", "logFailed", "returned", "threw", "done"}})

\* (mutant of GetOrSetStart: a miss joins a fetch of the key already in flight)
GetOrSetStartJoins(c, key, ttl) ==
    /\ call[c].pc = "idle"
    /\ LET g == cacheGet(store, key, now)
           seen == [IdleCall EXCEPT !.key = key, !.ttl = ttl,
                       !.startEntry = EntryState(store, key, now),
                       !.startData = IF key \in DOMAIN store THEN store[key].data
                                     ELSE NoValue,
                       !.startEpoch = InvalidationsDone]
           inFlight == \E d \in CallIds : call[d].pc = "fetching" /\ call[d].key = key
       IN /\ store' = g.st
          /\ call' = [call EXCEPT ![c] =
                        IF g.val # JsNull
                        THEN [seen EXCEPT !.pc = "done", !.result = g.val]
                        ELSE [seen EXCEPT !.pc = "fetching", !.invoked = ~inFlight]]
    /\ UNCHANGED <<syncVars, now, nAdv, upVars, rd>>

\* const cached = cache.get(key); if (cached !== null) return cached;
\* otherwise the fetcher is invoked and awaited
GetOrSetStart(c, key, ttl) ==
    /\ call[c].pc = "idle"
    /\ LET g == cacheGet(store, key, now)
           seen == [IdleCall EXCEPT !.key = key, !.ttl = ttl,
                       !.startEntry = EntryState(store, key, now),
                       !.startData = IF key \in DOMAIN store THEN store[key].data
                                     ELSE NoValue,
                       !.startEpoch = InvalidationsDone]
       IN /\ store' = g.st
          /\ call' = [call EXCEPT ![c] =
                        IF g.val # JsNull
                        THEN [seen EXCEPT !.pc = "done", !.result = g.val]
                        ELSE [seen EXCEPT !.pc = "fetching", !.invoked = TRUE]]
    /\ UNCHANGED <<syncVars, now, nAdv, upVars, rd>>

\* (mutant of ProducerReturn: a result fetched before an invalidation is returned
\* but not stored)
ProducerReturnUnlessInvalidated(c, v) ==
    /\ call[c].pc = "fetching"
    /\ store' = IF call[c].startEpoch < InvalidationsDone THEN store
                ELSE cacheSet(store, call[c].key, v, call[c].ttl, now)
    /\ call' = [call EXCEPT ![c].pc = "done", ![c].result = v]
    /\ UNCHANGED <<syncVars, now, nAdv, upVars, rd>>

\* const fresh = await fetcher(); cache.set(key, fresh, ttl); return fresh
ProducerReturn(c, v) ==
    /\ call[c].pc = "fetching"
    /\ store' = cacheSet(store, call[c].key, v, call[c].ttl, now)
    /\ call' = [call EXCEPT ![c].pc = "done", ![c].result = v]
    /\ UNCHANGED <<syncVars, now, nAdv, upVars, rd>>

\* (mutant of ProducerThrow: the failure is stored under the key)
ProducerThrowStoresFailure(c) ==
    /\ call[c].pc = "fetching"
    /\ store' = cacheSet(store, call[c].key, JsValue(<<"failed">>), call[c].ttl, now)
    /\ call' = [call EXCEPT ![c].pc = "threw"]
    /\ UNCHANGED <<syncVars, now, nAdv, upVars, rd>>

\* await fetcher() rejects: getOrSet rejects, nothing is stored
ProducerThrow(c) ==
    /\ call[c].pc = "fetching"
    /\ call' = [call EXCEPT ![c].pc = "threw"]
    /\ UNCHANGED <<syncVars, store, now, nAdv, upVars, rd>>

\* the caller has consumed the outcome; the slot is free for another call
CallSettled(c) ==
    /\ call[c].pc \in {"done", "threw"}
    /\ call' = [call EXCEPT ![c] = IdleCall]
    /\ UNCHANGED <<syncVars, store, now, nAdv, upVars, rd>>

\* time passes
Advance(d) ==
    /\ nAdv < MaxAdvances
    /\ nAdv' = nAdv + 1
    /\ now' = now + d
    /\ UNCHANGED <<syncVars, store, call, upVars, rd>>

InitCache ==
    /\ InitSched
    /\ InitDb
    /\ store = <<>>
    /\ now = T0
    /\ catalog = {}
    /\ InitOther

NextCache ==
    \/ \E c \in CallIds, key \in CacheKeys, ttl \in TTLs : GetOrSetStart(c, key, ttl)
    \/ \E c \in CallIds, v \in Data : ProducerReturn(c, v)
    \/ \E c \in CallIds : ProducerThrow(c)
    \/ \E c \in CallIds : CallSettled(c)
    \/ \E d \in ClockSteps : Advance(d)

SpecCache == InitCache /\ [][NextCache]_vars

(***************************************************************************)
(* One sync run while the clock advances, over a catalog whose event lists *)
(* one upstream market twice, with and without its condition id: the two   *)
(* records have the identities c1 and m1 and the same polymarketId.        *)
(***************************************************************************)
Market1NoCondition == PlainMarket(<<"m","1">>, <<>>, <<"s","9">>)

StampCatalog == {Event1(<<Market1, Market1NoCondition>>)}

InitStamp ==
    /\ isRunning = FALSE
    /\ nTrig = MaxTriggers - 1
    /\ startupFired = TRUE
    /\ run = [i \in RunIds |-> IF i < MaxTriggers THEN [IdleRun EXCEPT !.pc = "done"]
                                ELSE IdleRun]
    /\ syncLog = <<>>
    /\ \E tables \in EarlierTables :
         /\ dbEvents = tables.events
         /\ dbMarkets = tables.markets
    /\ store = <<>>
    /\ now = T0
    /\ catalog = StampCatalog
    /\ InitOther

NextStamp ==
    \/ CronTick
    \/ \E i \in RunIds : SyncStep(i)
    \/ \E d \in ClockSteps : Advance(d)

SpecStamp == InitStamp /\ [][NextStamp]_vars

(***************************************************************************)
(* One sync run while the routes fill the cache: market lists, a market    *)
(* detail, an order book and a price history.                              *)
(***************************************************************************)
PrefixPriceHistory == <<"p","r","i","c","e","-","h","i","s","t","o","r","y",":">>

RouteKeys ==
    {Key(PrefixMarkets, <<"{","}">>), Key(PrefixMarket, <<"s","1">>),
     Key(PrefixOrderbook, TokA), Key(PrefixPriceHistory, TokA \o <<":","1","d">>)}

InitInvalidate ==
    /\ isRunning = FALSE
    /\ nTrig = MaxTriggers - 1
    /\ startupFired = TRUE
    /\ run = [i \in RunIds |-> IF i < MaxTriggers THEN [IdleRun EXCEPT !.pc = "done"]
                                ELSE IdleRun]
    /\ InitDb
    /\ store = <<>>
    /\ now = T0
    /\ catalog = SchedCatalog
    /\ InitOther

NextInvalidate ==
    \/ CronTick
    \/ \E i \in RunIds : SyncStep(i)
    \/ \E c \in CallIds, key \in RouteKeys : GetOrSetStart(c, key, CACHE_TTL)
    \/ \E c \in CallIds : ProducerReturn(c, JsValue(<<"v1">>))
    \/ \E c \in CallIds : CallSettled(c)

SpecInvalidate == InitInvalidate /\ [][NextInvalidate]_vars

(***************************************************************************)
(* getMarkets: the cache lookup, then the producer, one step per await.    *)
(***************************************************************************)
Min(a, b) == IF a < b THEN a ELSE b

\* arr.slice(offset, offset + limit)
Slice(seq, offset, limit) ==
    IF offset >= Len(seq) THEN <<>>
    ELSE SubSeq(seq, offset + 1, Min(offset + limit, Len(seq)))

\* arr.sort((a, b) => b[field] - a[field]), a stable sort
RECURSIVE InsertDescBy(_, _, _)
InsertDescBy(sorted, x, field) ==
    IF sorted = <<>> THEN <<x>>
    ELSE IF Head(sorted)[field] < x[field] THEN <<x>> \o sorted
    ELSE <<Head(sorted)>> \o InsertDescBy(Tail(sorted), x, field)

\* (mutant of SortDescBy: the list is left in the order it has)
SortDescByUnsorted(seq, field) == seq

RECURSIVE SortDescBy(_, _)
SortDescBy(seq, field) ==
    IF seq = <<>> THEN <<>>
    ELSE InsertDescBy(SortDescBy(SubSeq(seq, 1, Len(seq) - 1), field),
                      seq[Len(seq)], field)

\* arr.sort((a, b) => a[field] - b[field]), a stable sort
RECURSIVE InsertAscBy(_, _, _)
InsertAscBy(sorted, x, field) ==
    IF sorted = <<>> THEN <<x>>
    ELSE IF Head(sorted)[field] > x[field] THEN <<x>> \o sorted
    ELSE <<Head(sorted)>> \o InsertAscBy(Tail(sorted), x, field)

\* (mutant of SortAscBy: the list is left in the order it has)
SortAscByUnsorted(seq, field) == seq

RECURSIVE SortAscBy(_, _)
SortAscBy(seq, field) ==
    IF seq = <<>> THEN <<>>
    ELSE InsertAscBy(SortAscBy(SubSeq(seq, 1, Len(seq) - 1), field),
                     seq[Len(seq)], field)

(***************************************************************************)
(* The /events request of a view.  A query parameter that is not sent is   *)
(* NoTagId (tag_id), "absent" (related_tags) or the empty text (order).    *)
(***************************************************************************)
\* polymarket.service.ts: export const POLYMARKET_TAG_IDS
POLYMARKET_TAG_IDS ==
    [Politics |-> 2, Crypto |-> 21, Sports |-> 100639, Finance |-> 120,
     Tech |-> 1401, Culture |-> 596, Geopolitics |-> 100265]

\* POLYMARKET_TAG_IDS.<name>: undefined for a name the object does not have
TagIdOf(name) ==
    IF name \in DOMAIN POLYMARKET_TAG_IDS THEN POLYMARKET_TAG_IDS[name] ELSE NoTagId

CATEGORY_TAG_MAP ==
    [All |-> NoTagId, Trending |-> NoTagId, Breaking |-> NoTagId,
     EndingSoon |-> NoTagId, HighestVolume |-> NoTagId, New |-> NoTagId,
     Politics |-> TagIdOf("Politics"), Crypto |-> TagIdOf("Crypto"),
     Economy |-> TagIdOf("Economy"), Sports |-> TagIdOf("Sports"),
     Technology |-> TagIdOf("Technology"), Culture |-> TagIdOf("Culture")]

\* CATEGORY_TAG_MAP[category]
CategoryTagId(category) ==
    IF category \in DOMAIN CATEGORY_TAG_MAP THEN CATEGORY_TAG_MAP[category] ELSE NoTagId

\* fetchGammaEvents: reqParams, built from the params of the call; a parameter
\* that is undefined is not sent
GammaEventsQuery(limit, tagId, relatedTags, order) ==
    [limit |-> Min(limit, 100), closed |-> "false", tag_id |-> tagId,
     related_tags |-> relatedTags, order |-> order]

\* the fetchGammaEvents call of each branch of getMarkets
ViewQuery(params) ==
    LET limit == params.limit
        offset == params.offset
        category == params.category
    IN CASE category \in {"Breaking", "EndingSoon", "HighestVolume"} ->
                GammaEventsQuery(100, NoTagId, "absent", <<>>)
         [] category = "New" ->
                GammaEventsQuery(Min(limit + offset + 40, 100), NoTagId, "absent", <<>>)
         [] category = "Sports" ->
                GammaEventsQuery(Min(limit + offset + 60, 100), CATEGORY_TAG_MAP.Sports,
                                 "absent", <<"s","t","a","r","t","D","a","t","e">>)
         [] category \in {"Trending", "All"} ->
                GammaEventsQuery(Min((limit + offset) * 2, 100), NoTagId, "absent", <<>>)
         [] OTHER ->
                GammaEventsQuery(Min((limit + offset) * 2, 100), CategoryTagId(category),
                                 "true", <<>>)

\* `markets:${JSON.stringify(params || {})}`
MarketsKey(params) ==
    Key(PrefixMarkets, <<params.category, ToString(params.limit),
                         ToString(params.offset)>> \o params.search)

Searching(params) == Len(params.search) > 0

\* the events handed to processEvents
SourceEvents(params, events) ==
    IF ~Searching(params) /\ params.category = "New"
    THEN LET IsNew(e) == e.new
             newEvents == SelectSeq(events, IsNew)
         IN IF Len(newEvents) >= params.limit THEN newEvents ELSE events
    ELSE events

\* the category handed to processEvents
ProcessCategory(params) == IF Searching(params) THEN "All" ELSE params.category

EndingSoonHours == 48

\* the view's filter and sort over the admitted markets
ViewOf(params, all, at) ==
    LET Traded(m) == m.volume24h > 0
        EndsSoon(m) == /\ m.endDate # NoDate
                       /\ m.endDate > at
                       /\ m.endDate <= at + EndingSoonHours * 60 * 60 * 1000
        IsNew(m) == m.isNew
    IN IF Searching(params) THEN all
       ELSE CASE params.category = "Breaking" ->
                    SortDescBy(SelectSeq(all, Traded), "volume24h")
              [] params.category = "EndingSoon" ->
                    SortAscBy(SelectSeq(all, EndsSoon), "endDate")
              [] params.category = "HighestVolume" -> SortDescBy(all, "volume")
              [] params.category = "New" ->
                    LET filtered == SelectSeq(all, IsNew)
                    IN IF Len(filtered) >= params.limit THEN filtered ELSE all
              [] OTHER -> all

\* (mutant of TokenIdsFrom: every non-empty id is asked for)
RECURSIVE TokenIdsAnyLength(_, _, _)
TokenIdsAnyLength(tokens, i, acc) ==
    IF i > Len(tokens) THEN acc
    ELSE TokenIdsAnyLength(tokens, i + 1,
            IF Len(tokens[i].token_id) > 0 THEN Append(acc, tokens[i].token_id)
            ELSE acc)

\* enrichWithRealPrices: the ids of the batch longer than 10 characters
RECURSIVE TokenIdsFrom(_, _, _)
TokenIdsFrom(tokens, i, acc) ==
    IF i > Len(tokens) THEN acc
    ELSE TokenIdsFrom(tokens, i + 1,
            IF Len(tokens[i].token_id) > 10 THEN Append(acc, tokens[i].token_id)
            ELSE acc)

RECURSIVE TokenIdsOf(_, _, _)
TokenIdsOf(markets, i, acc) ==
    IF i > Len(markets) THEN acc
    ELSE TokenIdsOf(markets, i + 1, TokenIdsFrom(markets[i].tokens, 1, acc))

\* JavaScript numbers of a price snapshot: a value in millionths, or NaN
NaN == [nan |-> TRUE, v |-> 0]
N(x) == [nan |-> FALSE, v |-> x]
Scale == 1000 * 1000

\* a > b, a < b (false when either is NaN)
Gt(a, b) == ~a.nan /\ ~b.nan /\ a.v > b.v
Lt(a, b) == ~a.nan /\ ~b.nan /\ a.v < b.v
Minus(a, b) == IF a.nan \/ b.nan THEN NaN ELSE N(a.v - b.v)
\* (a + b) / 2
Mean(a, b) == IF a.nan \/ b.nan THEN NaN ELSE N((a.v + b.v) \div 2)

RECURSIVE Pow10(_)
Pow10(n) == IF n = 0 THEN 1 ELSE 10 * Pow10(n - 1)

\* parseFloat(x.toFixed(digits)), x >= 0 in millionths
ToFixed(x, digits) ==
    LET unit == Scale \div Pow10(digits)
    IN ((x + unit \div 2) \div unit) * unit

\* priceMap.get(id): the index of the entry, 0 when absent
IndexOf(obj, k) ==
    IF ObjHas(obj, k) THEN CHOOSE i \in 1..Len(obj) : obj[i].k = k ELSE 0

TightSpread == 2 * (Scale \div 100)    \* 0.02

\* enrichWithRealPrices, markets.forEach body: the tokens' display prices are
\* written over a copy of outcomePrices; the result is [prices, updated]
RECURSIVE NewPricesFrom(_, _, _, _)
NewPricesFrom(tokens, priceMap, i, acc) ==
    IF i > Len(tokens) THEN acc
    ELSE LET at == IndexOf(priceMap, tokens[i].token_id)
         IN IF at = 0 THEN NewPricesFrom(tokens, priceMap, i + 1, acc)
            ELSE LET snap == priceMap[at].v
                     spreadVal == Minus(snap.bestAsk, snap.bestBid)
                     displayPrice == IF Lt(spreadVal, N(TightSpread)) THEN snap.midpoint
                                     ELSE snap.lastPrice
                 IN NewPricesFrom(tokens, priceMap, i + 1,
                       IF Gt(displayPrice, N(0))
                       THEN [prices |-> ObjSet(acc.prices, tokens[i].outcome,
                                               ToFixed(displayPrice.v, 4)),
                             updated |-> TRUE]
                       ELSE acc)

\* (mutant of EnrichMarket: the prices are written over, the spread is left)
EnrichMarketStaleSpread(market, priceMap) ==
    LET new == NewPricesFrom(market.tokens, priceMap, 1,
                             [prices |-> market.outcomePrices, updated |-> FALSE])
    IN IF new.updated THEN [market EXCEPT !.outcomePrices = new.prices] ELSE market

EnrichMarket(market, priceMap) ==
    LET new == NewPricesFrom(market.tokens, priceMap, 1,
                             [prices |-> market.outcomePrices, updated |-> FALSE])
        vals == ObjValues(new.prices)
    IN IF new.updated
       THEN [market EXCEPT !.outcomePrices = new.prices,
                           !.spread = IF Len(vals) >= 2
                                      THEN ToFixed(Abs(vals[1] - vals[2]), 6)
                                      ELSE NoSpread]
       ELSE market

\* the rest of enrichWithRealPrices once fetchTokenPricesViaWS has resolved
Enriched(markets, priceMap) ==
    IF Len(priceMap) = 0 THEN markets
    ELSE [k \in 1..Len(markets) |-> EnrichMarket(markets[k], priceMap)]

\* the producer resolves with value: getOrSet stores it and returns it
Finish(rec, value, st, t) ==
    [rec |-> [rec EXCEPT !.pc = "done", !.result = value],
     st |-> cacheSet(st, rec.key, value, CACHE_TTL, t)]

\* return enrichWithRealPrices(markets): with no id to ask for, or when the
\* WebSocket constructor throws, the markets come back as they are; otherwise
\* the session is created and the producer awaits it
EnrichOrFinish(rec, markets, st, t, initOk) ==
    LET tokenIds == TokenIdsOf(markets, 1, <<>>)
        r2 == [rec EXCEPT !.pre = markets]
    IN IF tokenIds = <<>> THEN Finish(r2, JsValue(markets), st, t)
       ELSE IF ~initOk
       THEN Finish([r2 EXCEPT !.ws.state = "failed", !.ws.tokenIds = tokenIds,
                              !.ws.timeout = "cleared"],
                   JsValue(markets), st, t)
       ELSE [rec |-> [r2 EXCEPT !.pc = "ws",
                                !.ws = [state |-> "connecting", tokenIds |-> tokenIds,
                                        prices |-> <<>>, timeout |-> "set",
                                        ping |-> "none"]],
             st |-> st]

\* processEvents, the view's policy, the page, then enrichment
AfterFetch(rec, events, st, t, initOk) ==
    LET src == SourceEvents(rec.params, events)
        all == processEvents(src, ProcessCategory(rec.params), rec.at)
        page == Slice(ViewOf(rec.params, all, rec.at), rec.params.offset,
                      rec.params.limit)
    IN EnrichOrFinish([rec EXCEPT !.events = src, !.all = all], page, st, t, initOk)

\* getMarkets(params): cache.get, and on a miss the producer runs to its first
\* await
GetMarketsCall(r, params) ==
    /\ rd[r].pc = "idle"
    /\ LET key == MarketsKey(params)
           g == cacheGet(store, key, now)
           rec == [IdleRead EXCEPT !.op = "getMarkets", !.params = params,
                                   !.key = key, !.at = now]
       IN /\ store' = g.st
          /\ rd' = [rd EXCEPT ![r] =
                     IF g.val # JsNull
                     THEN [rec EXCEPT !.pc = "done", !.hit = TRUE, !.result = g.val]
                     ELSE IF Searching(params) THEN [rec EXCEPT !.pc = "search"]
                     ELSE IF params.category = "EndingSoon"
                     THEN [rec EXCEPT !.pc = "fetchSoon"]
                     ELSE [rec EXCEPT !.pc = "fetch", !.req = ViewQuery(params)]]
    /\ UNCHANGED <<syncVars, now, nAdv, call, upVars>>

\* await fetchGammaEvents(...) settles: a rejection leaves the producer, and
\* getOrSet, rejected; nothing is stored
GetMarketsFetched(r) ==
    /\ rd[r].pc = "fetch"
    /\ \E ok \in BOOLEAN, initOk \in BOOLEAN :
       \E resp \in (IF ok THEN Responses ELSE {<<>>}) :
         IF ok
         THEN LET out == AfterFetch(rd[r], rd[r].events \o resp, store, now, initOk)
              IN rd' = [rd EXCEPT ![r] = out.rec] /\ store' = out.st
         ELSE rd' = [rd EXCEPT ![r].pc = "threw"] /\ UNCHANGED store
    /\ UNCHANGED <<syncVars, now, nAdv, call, upVars>>

\* await fetchGammaSearch(search, 50) settles; it returns [] when the request
\* failed
GetMarketsSearched(r) ==
    /\ rd[r].pc = "search"
    /\ \E ok \in BOOLEAN, initOk \in BOOLEAN :
       \E resp \in (IF ok THEN Responses ELSE {<<>>}) :
         LET out == AfterFetch(rd[r], resp, store, now, initOk)
         IN rd' = [rd EXCEPT ![r] = out.rec] /\ store' = out.st
    /\ UNCHANGED <<syncVars, now, nAdv, call, upVars>>

MinEndingSoon == 5

\* what fetchEndingSoonEvents can resolve with: a response of the catalog, or
\* one of MinEndingSoon events or more (a full response three times over)
SoonResponses ==
    Responses \cup {q \o q \o q : q \in {x \in Responses : Len(x) = MaxResp}}

\* await fetchEndingSoonEvents(48, 100) settles (the function is imported from
\* the Upstream Client; the call is not guarded, so a rejection leaves the
\* producer): with fewer than 5 events the broad fetch follows and its events
\* are appended
EndingSoonFetched(r) ==
    /\ rd[r].pc = "fetchSoon"
    /\ \E ok \in BOOLEAN, initOk \in BOOLEAN :
       \E resp \in (IF ok THEN SoonResponses ELSE {<<>>}) :
         IF ~ok THEN rd' = [rd EXCEPT ![r].pc = "threw"] /\ UNCHANGED store
         ELSE IF Len(resp) < MinEndingSoon
         THEN rd' = [rd EXCEPT ![r].pc = "fetch", ![r].events = resp,
                                  ![r].req = ViewQuery(rd[r].params)]
              /\ UNCHANGED store
         ELSE LET out == AfterFetch(rd[r], resp, store, now, initOk)
              IN rd' = [rd EXCEPT ![r] = out.rec] /\ store' = out.st
    /\ UNCHANGED <<syncVars, now, nAdv, call, upVars>>

(***************************************************************************)
(* fetchTokenPricesViaWS: the session of a read that awaits it.  finish()  *)
(* resolves the promise with the snapshots received so far; the awaiting   *)
(* enrichWithRealPrices, the producer and getOrSet then run to their end.  *)
(***************************************************************************)
WsFinish(r) ==
    LET out == Finish([rd[r] EXCEPT !.ws.state = "closed", !.ws.timeout = "cleared",
                                    !.ws.ping = "cleared"],
                      JsValue(Enriched(rd[r].pre, rd[r].ws.prices)), store, now)
    IN rd' = [rd EXCEPT ![r] = out.rec] /\ store' = out.st

\* ws.on("open"): the subscription is sent, the ping timer set
WsOpen(r) ==
    /\ rd[r].pc = "ws" /\ rd[r].ws.state = "connecting"
    /\ rd' = [rd EXCEPT ![r].ws.state = "open", ![r].ws.ping = "set"]
    /\ UNCHANGED <<syncVars, store, now, nAdv, call, upVars>>

InTokenIds(r, assetId) ==
    \E k \in 1..Len(rd[r].ws.tokenIds) : rd[r].ws.tokenIds[k] = assetId

\* a "book" message: bid and ask are parseFloat of the first bid and ask prices,
\* 0 for an empty side
WsBook(r, assetId, bid, ask) ==
    /\ rd[r].pc = "ws" /\ rd[r].ws.state = "open"
    /\ InTokenIds(r, assetId)
    /\ LET midpoint == IF Gt(bid, N(0)) /\ Gt(ask, N(0)) THEN Mean(bid, ask) ELSE N(0)
           prices == ObjSet(rd[r].ws.prices, assetId,
                            [bestBid |-> bid, bestAsk |-> ask,
                             lastPrice |-> midpoint, midpoint |-> midpoint])
       IN IF Len(prices) >= Len(rd[r].ws.tokenIds)
          THEN LET out == Finish([rd[r] EXCEPT !.ws.state = "closed",
                                               !.ws.timeout = "cleared",
                                               !.ws.ping = "cleared",
                                               !.ws.prices = prices],
                                 JsValue(Enriched(rd[r].pre, prices)), store, now)
               IN rd' = [rd EXCEPT ![r] = out.rec] /\ store' = out.st
          ELSE rd' = [rd EXCEPT ![r].ws.prices = prices] /\ UNCHANGED store
    /\ UNCHANGED <<syncVars, now, nAdv, call, upVars>>

\* a "price_change" message with one change for a token that has a snapshot
WsPriceChange(r, assetId, bid, ask) ==
    /\ rd[r].pc = "ws" /\ rd[r].ws.state = "open"
    /\ LET at == IndexOf(rd[r].ws.prices, assetId)
       IN /\ at # 0
          /\ rd' = [rd EXCEPT ![r].ws.prices[at].v.bestBid = bid,
                              ![r].ws.prices[at].v.bestAsk = ask,
                              ![r].ws.prices[at].v.midpoint = Mean(bid, ask)]
    /\ UNCHANGED <<syncVars, store, now, nAdv, call, upVars>>

\* a "last_trade_price" message for a token that has a snapshot
WsLastTrade(r, assetId, price) ==
    /\ rd[r].pc = "ws" /\ rd[r].ws.state = "open"
    /\ LET at == IndexOf(rd[r].ws.prices, assetId)
       IN /\ at # 0
          /\ rd' = [rd EXCEPT ![r].ws.prices[at].v.lastPrice = price]
    /\ UNCHANGED <<syncVars, store, now, nAdv, call, upVars>>

\* setTimeout(finish, timeoutMs) fires
WsTimeout(r) ==
    /\ rd[r].pc = "ws"
    /\ WsFinish(r)
    /\ UNCHANGED <<syncVars, now, nAdv, call, upVars>>

\* ws.on("error")
WsError(r) ==
    /\ rd[r].pc = "ws"
    /\ WsFinish(r)
    /\ UNCHANGED <<syncVars, now, nAdv, call, upVars>>

\* ws.on("close")
WsClose(r) ==
    /\ rd[r].pc = "ws"
    /\ WsFinish(r)
    /\ UNCHANGED <<syncVars, now, nAdv, call, upVars>>

(***************************************************************************)
(* getMarketDetail: the cache lookup, then the producer's fallback chain.  *)
(* A lookup of the Upstream Client yields a record that matches, or null   *)
(* (nothing matches, or the request failed).                               *)
(***************************************************************************)
\* (mutant of GetMarketDetailCall: an entry that has not expired is a hit
\* whatever it holds)
GetMarketDetailCallServesNull(r, idOrSlug) ==
    /\ rd[r].pc = "idle"
    /\ LET key == Key(PrefixMarket, idOrSlug)
           g == cacheGet(store, key, now)
           rec == [IdleRead EXCEPT !.op = "getMarketDetail",
                                   !.params = [NoParams EXCEPT !.search = idOrSlug],
                                   !.key = key, !.at = now]
       IN /\ store' = g.st
          /\ rd' = [rd EXCEPT ![r] =
                     IF EntryState(store, key, now) = "fresh"
                     THEN [rec EXCEPT !.pc = "done", !.hit = TRUE, !.result = g.val]
                     ELSE [rec EXCEPT !.pc = "bySlug"]]
    /\ UNCHANGED <<syncVars, now, nAdv, call, upVars>>

GetMarketDetailCall(r, idOrSlug) ==
    /\ rd[r].pc = "idle"
    /\ LET key == Key(PrefixMarket, idOrSlug)
           g == cacheGet(store, key, now)
           rec == [IdleRead EXCEPT !.op = "getMarketDetail",
                                   !.params = [NoParams EXCEPT !.search = idOrSlug],
                                   !.key = key, !.at = now]
       IN /\ store' = g.st
          /\ rd' = [rd EXCEPT ![r] =
                     IF g.val # JsNull
                     THEN [rec EXCEPT !.pc = "done", !.hit = TRUE, !.result = g.val]
                     ELSE [rec EXCEPT !.pc = "bySlug"]]
    /\ UNCHANGED <<syncVars, now, nAdv, call, upVars>>

CatalogMarkets == {[event |-> e, k |-> k] : e \in catalog, k \in 1..MaxResp}

\* const dummyEvent = {id: market.id, slug: idOrSlug, closed: market.closed, ...}
DummyEvent(market, idOrSlug) ==
    RawEvent(market.id, idOrSlug, market.closed, FALSE, <<>>, FALSE, <<market>>)

\* 1. await fetchGammaEventBySlug(idOrSlug)
DetailEventFetched(r) ==
    /\ rd[r].pc = "bySlug"
    /\ LET found == {e \in catalog : e.slug = rd[r].params.search /\ Len(e.markets) > 0}
       IN \E ok \in BOOLEAN, initOk \in BOOLEAN :
            IF ok /\ found # {}
            THEN \E e \in found :
                   LET out == EnrichOrFinish(rd[r], <<transformEventMarket(e.markets[1], e)>>,
                                             store, now, initOk)
                   IN rd' = [rd EXCEPT ![r] = out.rec] /\ store' = out.st
            ELSE rd' = [rd EXCEPT ![r].pc = "byCondition"] /\ UNCHANGED store
    /\ UNCHANGED <<syncVars, now, nAdv, call, upVars>>

\* the market lookups: 2. by condition id, 3. by market slug
DetailMarketFetched(r, pc, field, next) ==
    /\ rd[r].pc = pc
    /\ LET found == {c \in CatalogMarkets :
                        /\ c.k <= Len(c.event.markets)
                        /\ c.event.markets[c.k][field] = rd[r].params.search
                        /\ Len(c.event.markets[c.k].id) > 0}
       IN \E ok \in BOOLEAN, initOk \in BOOLEAN :
            IF ok /\ found # {}
            THEN \E c \in found :
                   LET market == c.event.markets[c.k]
                       out == EnrichOrFinish(rd[r],
                                <<transformEventMarket(market,
                                     DummyEvent(market, rd[r].params.search))>>,
                                store, now, initOk)
                   IN rd' = [rd EXCEPT ![r] = out.rec] /\ store' = out.st
            ELSE rd' = [rd EXCEPT ![r].pc = next] /\ UNCHANGED store
    /\ UNCHANGED <<syncVars, now, nAdv, call, upVars>>

DetailConditionFetched(r) ==
    DetailMarketFetched(r, "byCondition", "conditionId", "byMarketSlug")

DetailSlugFetched(r) == DetailMarketFetched(r, "byMarketSlug", "slug", "db")

\* 4. await prisma.market.findFirst({where: {OR: [{id}, {slug}, {polymarketId}]}})
DetailDbFound(r) ==
    /\ rd[r].pc = "db"
    /\ LET found == {row \in dbMarkets : rd[r].params.search
                                            \in {row.id, row.slug, row.polymarketId}}
       IN \E dbOk \in BOOLEAN :
            IF ~dbOk THEN rd' = [rd EXCEPT ![r].pc = "threw"] /\ UNCHANGED store
            ELSE \E value \in (IF found = {} THEN {JsNull}
                               ELSE {JsValue(<<row>>) : row \in found}) :
                   LET out == Finish(rd[r], value, store, now)
                   IN rd' = [rd EXCEPT ![r] = out.rec] /\ store' = out.st
    /\ UNCHANGED <<syncVars, now, nAdv, call, upVars>>

(***************************************************************************)
(* Enrichment: reads over catalogs of one event with one market whose      *)
(* JSON-encoded outcome and token fields vary in shape, and over the       *)
(* two-market event.                                                       *)
(***************************************************************************)
TokShort == <<"t","o","k","-","1">>
TokOther == <<"t","o","k","e","n","-","X","-","0","0","9">>

OutcomeShapes == {YesNo, JsonArr(<<"Up">>), JsonMalformed, JsonNull}
TokenShapes == {JsonArr(<<TokA, TokB>>), JsonArr(<<TokA, TokA>>),
                JsonArr(<<TokShort, TokShort>>), JsonArr(<<TokA>>), NoTokens}

ShapeMarket(outcomes, tokenIds) ==
    RawMarket(<<"m","1">>, <<"c","1">>, <<"s","1">>, TRUE, FALSE, <<>>, Later,
              NumStr(100), Num(10), NumStr(50), outcomes, Prices6535, tokenIds)

EnrichCatalogs ==
    {{Event1(<<ShapeMarket(o, t)>>)} : o \in OutcomeShapes, t \in TokenShapes}
    \cup {{Event1(<<Market1, Market2>>)}}

Quotes == {[bid |-> N(0), ask |-> N(0)],
           [bid |-> N(500000), ask |-> N(510000)],
           [bid |-> N(400000), ask |-> N(600000)],
           [bid |-> NaN, ask |-> N(510000)]}
\* last trade prices: 0.7, 0.00004 (which toFixed(4) rounds to 0) and NaN
Trades == {N(700000), N(40), NaN}
Assets == {TokA, TokB, TokShort, TokOther}

EnrichParams ==
    {[category |-> "All", limit |-> 20, offset |-> 0, search |-> <<>>]}
DetailIds == {<<"e","v","-","1">>, <<"c","1">>, <<"s","1">>, <<"z">>}

InitEnrich ==
    /\ InitSched
    /\ syncLog = <<>>
    /\ dbEvents = {}
    /\ dbMarkets = {MarketRow(transformEventMarket(Market1, Event1(<<Market1>>)),
                              T0 - MIN_REMAINING_MS)}
    /\ store = <<>>
    /\ now = T0
    /\ catalog \in EnrichCatalogs
    /\ InitOther

NextEnrich ==
    \/ \E r \in ReadIds, params \in EnrichParams : GetMarketsCall(r, params)
    \/ \E r \in ReadIds : GetMarketsFetched(r)
    \/ \E r \in ReadIds, idOrSlug \in DetailIds : GetMarketDetailCall(r, idOrSlug)
    \/ \E r \in ReadIds : DetailEventFetched(r)
    \/ \E r \in ReadIds : DetailConditionFetched(r)
    \/ \E r \in ReadIds : DetailSlugFetched(r)
    \/ \E r \in ReadIds : DetailDbFound(r)
    \/ \E r \in ReadIds : WsOpen(r)
    \/ \E r \in ReadIds, a \in Assets, q \in Quotes : WsBook(r, a, q.bid, q.ask)
    \/ \E r \in ReadIds, a \in Assets, q \in Quotes : WsPriceChange(r, a, q.bid, q.ask)
    \/ \E r \in ReadIds, a \in Assets, p \in Trades : WsLastTrade(r, a, p)
    \/ \E r \in ReadIds : WsTimeout(r)
    \/ \E r \in ReadIds : WsError(r)
    \/ \E r \in ReadIds : WsClose(r)

SpecEnrich == InitEnrich /\ [][NextEnrich]_vars

(***************************************************************************)
(* Admission and de-duplication: on-demand reads and the batch of a sync   *)
(* run over catalogs that differ in one market, the first of the first     *)
(* event.  Its condition id is also that of the market after it and of the *)
(* last market of the second event, whose other markets have no condition  *)
(* id, end later and trade more.                                           *)
(***************************************************************************)
Views ==
    {"Trending", "All", "Breaking", "EndingSoon", "HighestVolume", "New", "Sports",
     "Politics"}

Pages == {[limit |-> 20, offset |-> 0], [limit |-> 1, offset |-> 1]}

ReadParams ==
    {[category |-> c, limit |-> p.limit, offset |-> p.offset, search |-> <<>>] :
        c \in Views, p \in Pages}
    \cup {[category |-> "Trending", limit |-> p.limit, offset |-> p.offset,
           search |-> <<"q">>] : p \in Pages}

FilterMarket(id, conditionId, slug, active, closed, tags, endDate, vol, vol24) ==
    RawMarket(id, conditionId, slug, active, closed, tags, endDate,
              NumStr(vol), Num(vol24), NumStr(50), YesNo, Prices6535, NoTokens)

\* the market under test: v gives its tags' place, its end date, its 24h
\* volume, its flags and the state of its event
SubjectEvent(v) ==
    RawEvent(<<"e","1">>, <<"e","v","-","1">>, v.evState = "closed",
             v.evState = "archived",
             IF v.tagAt = "event" THEN <<TagRecurring>> ELSE <<>>, FALSE,
             <<FilterMarket(<<"m","1">>, <<"c","1">>, <<"s","1">>, v.active, v.closed,
                            IF v.tagAt = "market" THEN <<TagRecurring>> ELSE <<>>,
                            v.endDate, 100, v.vol24),
               FilterMarket(<<"m","2">>, <<"c","1">>, <<"s","2">>, TRUE, FALSE, <<>>,
                            Later, 100, 10)>>)

OtherEvent ==
    RawEvent(<<"e","2">>, <<"e","v","-","2">>, FALSE, FALSE, <<>>, TRUE,
             <<FilterMarket(<<"m","5">>, <<>>, <<"s","5">>, TRUE, FALSE, <<>>,
                            T0 + 60 * MIN_REMAINING_MS, 300, 15),
               FilterMarket(<<"m","4">>, <<>>, <<"s","4">>, TRUE, FALSE, <<>>,
                            T0 + 30 * MIN_REMAINING_MS, 500, 20),
               FilterMarket(<<"m","3">>, <<"c","1">>, <<"s","3">>, TRUE, FALSE, <<>>,
                            Later, 100, 10)>>)

EndDates == {NoDate, T0 - MIN_REMAINING_MS, T0 + MIN_REMAINING_MS \div 2, Later}

\* the ends of the two time windows: one hour, and 48 hours and a second more
EdgeDates ==
    {T0 + MIN_REMAINING_MS, T0 + MIN_REMAINING_MS - 1,
     T0 + 48 * MIN_REMAINING_MS, T0 + 48 * MIN_REMAINING_MS + 1000}

Subjects ==
    {[tagAt |-> g, endDate |-> d, vol24 |-> w, active |-> TRUE, closed |-> FALSE,
      evState |-> "open"] : g \in {"none", "market", "event"}, d \in EndDates,
                             w \in {0, 5}}
    \cup {[tagAt |-> "none", endDate |-> Later, vol24 |-> 5, active |-> a,
           closed |-> c, evState |-> e] :
             a \in BOOLEAN, c \in BOOLEAN, e \in {"open", "closed", "archived"}}
    \cup {[tagAt |-> "none", endDate |-> d, vol24 |-> 5, active |-> TRUE,
           closed |-> FALSE, evState |-> "open"] : d \in EdgeDates}

FilterCatalogs == {{SubjectEvent(v), OtherEvent} : v \in Subjects}

\* A read and the fetch loop of a sync run touch disjoint state, so a
\* behaviour has either the reads still to come or the last scheduler callback.
InitFilter ==
    /\ isRunning = FALSE
    /\ startupFired = TRUE
    /\ \E reads \in BOOLEAN :
         /\ nTrig = IF reads THEN MaxTriggers ELSE MaxTriggers - 1
         /\ run = [i \in RunIds |->
                     IF i <= nTrig THEN [IdleRun EXCEPT !.pc = "done"] ELSE IdleRun]
         /\ rd = [r \in ReadIds |->
                    IF reads THEN IdleRead ELSE [IdleRead EXCEPT !.pc = "over"]]
    /\ InitDb
    /\ store = <<>>
    /\ now = T0
    /\ catalog \in FilterCatalogs
    /\ nAdv = 0
    /\ call = [c \in CallIds |-> IdleCall]
    /\ up = [r \in ReqIds |-> IdleReq]

\* reads, and a sync run as far as its batch
NextFilter ==
    \/ \E r \in ReadIds, params \in ReadParams : GetMarketsCall(r, params)
    \/ \E r \in ReadIds : GetMarketsFetched(r)
    \/ \E r \in ReadIds : GetMarketsSearched(r)
    \/ \E r \in ReadIds : EndingSoonFetched(r)
    \/ CronTick
    \/ \E i \in RunIds : FetchReturn(i)

SpecFilter == InitFilter /\ [][NextFilter]_vars

(***************************************************************************)
(* Repeated detail reads: getMarketDetail requests one after another, and  *)
(* getOrSet calls on the key of an id nothing matches, while time passes.  *)
(***************************************************************************)
\* the request has been answered; the slot takes the next request
ReadSettled(r) ==
    /\ rd[r].pc \in {"done", "threw"}
    /\ rd' = [rd EXCEPT ![r] = IdleRead]
    /\ UNCHANGED <<syncVars, store, now, nAdv, call, upVars>>

UnknownId == <<"z">>
RepeatIds == {UnknownId, <<"s","5">>}
\* the clock steps past the expiry of an entry stored at the step before
RepeatClockSteps == {(CACHE_TTL + 1) * 1000}

InitRepeat ==
    /\ InitSched
    /\ InitDb
    /\ store = <<>>
    /\ now = T0
    /\ catalog = {OtherEvent}
    /\ InitOther

NextRepeat ==
    \/ \E r \in ReadIds, idOrSlug \in RepeatIds : GetMarketDetailCall(r, idOrSlug)
    \/ \E r \in ReadIds : DetailEventFetched(r)
    \/ \E r \in ReadIds : DetailConditionFetched(r)
    \/ \E r \in ReadIds : DetailSlugFetched(r)
    \/ \E r \in ReadIds : DetailDbFound(r)
    \/ \E r \in ReadIds : ReadSettled(r)
    \/ \E c \in CallIds : GetOrSetStart(c, Key(PrefixMarket, UnknownId), CACHE_TTL)
    \/ \E c \in CallIds, v \in Data : ProducerReturn(c, v)
    \/ \E c \in CallIds : CallSettled(c)
    \/ \E d \in RepeatClockSteps : Advance(d)

SpecRepeat == InitRepeat /\ [][NextRepeat]_vars

(***************************************************************************)
(* The requests of the views: reads of every view and page, and a search,  *)
(* over one catalog.                                                       *)
(***************************************************************************)
StaticCategories == {"Politics", "Crypto", "Economy", "Technology", "Culture"}

AllViewParams ==
    ReadParams
    \cup {[category |-> c, limit |-> p.limit, offset |-> p.offset, search |-> <<>>] :
             c \in StaticCategories, p \in Pages}

InitRequest ==
    /\ InitSched
    /\ InitDb
    /\ store = <<>>
    /\ now = T0
    /\ catalog = {OtherEvent}
    /\ InitOther

NextRequest ==
    \/ \E r \in ReadIds, params \in AllViewParams : GetMarketsCall(r, params)
    \/ \E r \in ReadIds : GetMarketsFetched(r)
    \/ \E r \in ReadIds : GetMarketsSearched(r)
    \/ \E r \in ReadIds : EndingSoonFetched(r)

SpecRequest == InitRequest /\ [][NextRequest]_vars

(***************************************************************************)
(* Upstream Client.  An HTTP exchange either fails in transport (the axios *)
(* promise rejects, after the response interceptor has logged it) or       *)
(* yields a body: a non-empty array / an object with the expected fields   *)
(* ("items"), an empty array ("emptyList"), or some other JSON object      *)
(* ("other").                                                              *)
(***************************************************************************)
UpstreamOps ==
    {"fetchGammaEvents", "fetchGammaEventBySlug", "fetchGammaMarketByConditionId",
     "fetchGammaMarketBySlug", "fetchGammaSearch", "fetchOrderBook",
     "fetchPriceHistory", "fetchUserPositions"}

Bodies == {"items", "emptyList", "other"}
Transport == Bodies \cup {"fail"}

Returned(v) == [pc |-> "returned", value |-> v]
Threw == [pc |-> "threw", value |-> "error"]

\* return Array.isArray(data) ? data : []
ArrayOrEmpty(body) == IF body = "items" THEN "items" ELSE "emptyList"

\* return Array.isArray(data) && data.length > 0 ? data[0] : null
FirstOrNull(body) == IF body = "items" THEN "first" ELSE "null"

fetchGammaEvents(resp) ==
    IF resp = "fail" THEN Threw ELSE Returned(ArrayOrEmpty(resp))

fetchGammaEventBySlug(resp) ==
    IF resp = "fail" THEN Returned("null") ELSE Returned(FirstOrNull(resp))

\* return data?.id ? data : null
fetchGammaMarketByConditionId(resp) ==
    IF resp = "fail" THEN Returned("null")
    ELSE Returned(IF resp = "items" THEN "data" ELSE "null")

fetchGammaMarketBySlug(resp) ==
    IF resp = "fail" THEN Returned("null") ELSE Returned(FirstOrNull(resp))

fetchGammaSearch(resp) ==
    IF resp = "fail" THEN Returned("emptyList") ELSE Returned(ArrayOrEmpty(resp))

\* return data
fetchOrderBook(resp) ==
    IF resp = "fail" THEN Threw
    ELSE Returned(IF resp = "items" THEN "data" ELSE resp)

\* return data.history ?? []
fetchPriceHistory(resp) ==
    IF resp = "fail" THEN Threw
    ELSE Returned(IF resp = "items" THEN "items" ELSE "emptyList")

fetchUserPositions(resp) ==
    IF resp = "fail" THEN Threw ELSE Returned(ArrayOrEmpty(resp))

UpstreamOutcome(op, resp) ==
    CASE op = "fetchGammaEvents" -> fetchGammaEvents(resp)
      [] op = "fetchGammaEventBySlug" -> fetchGammaEventBySlug(resp)
      [] op = "fetchGammaMarketByConditionId" -> fetchGammaMarketByConditionId(resp)
      [] op = "fetchGammaMarketBySlug" -> fetchGammaMarketBySlug(resp)
      [] op = "fetchGammaSearch" -> fetchGammaSearch(resp)
      [] op = "fetchOrderBook" -> fetchOrderBook(resp)
      [] op = "fetchPriceHistory" -> fetchPriceHistory(resp)
      [] op = "fetchUserPositions" -> fetchUserPositions(resp)

\* the operation is called and awaits client.get(...)
UpstreamCall(r, op) ==
    /\ up[r].pc = "idle"
    /\ up' = [up EXCEPT ![r] = [IdleReq EXCEPT !.pc = "waiting", !.op = op]]
    /\ UNCHANGED <<syncVars, store, now, nAdv, call, rd>>

\* the exchange settles; a rejection passes through the response interceptor,
\* which logs it and rejects again, before it reaches the operation
UpstreamSettle(r, resp) ==
    /\ up[r].pc = "waiting"
    /\ LET out == UpstreamOutcome(up[r].op, resp)
       IN up' = [up EXCEPT ![r] = [pc |-> out.pc, op |-> up[r].op, resp |-> resp,
                                   value |-> out.value, logged |-> resp = "fail"]]
    /\ UNCHANGED <<syncVars, store, now, nAdv, call, rd>>

\* the caller has taken the outcome
UpstreamTaken(r) ==
    /\ up[r].pc \in {"returned", "threw"}
    /\ up' = [up EXCEPT ![r] = IdleReq]
    /\ UNCHANGED <<syncVars, store, now, nAdv, call, rd>>

NextUpstream ==
    \/ \E r \in ReqIds, op \in UpstreamOps : UpstreamCall(r, op)
    \/ \E r \in ReqIds, resp \in Transport : UpstreamSettle(r, resp)
    \/ \E r \in ReqIds : UpstreamTaken(r)

SpecUpstream == InitCache /\ [][NextUpstream]_vars

(***************************************************************************)
(* Normalization: reads of the All view over catalogs of one event with    *)
(* one market, which differ in the tag labels and the category hint, or in *)
(* the JSON-encoded outcome and price lists.                               *)
(***************************************************************************)
TextBitcoinHalvingOdds == <<"b","i","t","c","o","i","n"," ","h","a","l","v","i","n","g"," ","o","d","d","s">>
TextNbaFinalsWinner == <<"N","B","A"," ","F","i","n","a","l","s"," ","w","i","n","n","e","r">>
TextWeather == <<"W","e","a","t","h","e","r">>
TextCrypto == <<"C","r","y","p","t","o">>
TextPolitics == <<"P","o","l","i","t","i","c","s">>
TextElections == <<"E","l","e","c","t","i","o","n","s">>
TextTariff == <<"T","a","r","i","f","f">>
TextOscarAward == <<"O","s","c","a","r"," ","A","w","a","r","d">>
TextStock == <<"S","t","o","c","k">>
TextTesla == <<"T","e","s","l","a">>
TextNetflix == <<"N","e","t","f","l","i","x">>
TextFed == <<"F","e","d">>
TextRate == <<"R","a","t","e">>
TextTech == <<"T","e","c","h">>
TextSports == <<"S","p","o","r","t","s">>

TagLists ==
    {<<>>, <<TextBitcoinHalvingOdds>>, <<TextNbaFinalsWinner>>, <<TextWeather>>,
     <<TextCrypto, TextPolitics>>, <<TextElections, TextNbaFinalsWinner>>,
     <<TextTariff>>, <<TextOscarAward>>, <<TextStock>>, <<TextTesla>>,
     <<TextNetflix>>, <<TextFed, TextRate>>, <<TextWeather, TextWeather>>}

Hints == {<<>>, TextTech, TextSports}

\* the event carries the first label, the market the others
TaggedEvent(tags, hint) ==
    [RawEvent(<<"e","1">>, <<"e","v","-","1">>, FALSE, FALSE,
              IF tags = <<>> THEN <<>> ELSE <<Head(tags)>>, FALSE,
              <<RawMarket(<<"m","1">>, <<"c","1">>, <<"s","1">>, TRUE, FALSE,
                          IF tags = <<>> THEN <<>> ELSE Tail(tags), Later,
                          NumStr(100), Num(10), NumStr(50), YesNo, Prices6535,
                          NoTokens)>>)
     EXCEPT !.category = hint]

OutcomeLists ==
    {YesNo, JsonArr(<<"Up">>), JsonArr(<<"Yes", "Yes">>), JsonArr(<<"A", "B", "C">>),
     JsonArr(<<>>), JsonMalformed, JsonObject, JsonNull}

PriceLists ==
    {Prices6535, JsonArr(<<NumStr(650000)>>), JsonArr(<<NumStr(650000), NumBad>>),
     JsonArr(<<NumStr(500000), NumStr(300000), NumStr(200000)>>),
     JsonArr(<<>>), JsonMalformed, JsonNull}

PricedEvent(outcomes, prices) ==
    Event1(<<RawMarket(<<"m","1">>, <<"c","1">>, <<"s","1">>, TRUE, FALSE, <<>>, Later,
                       NumStr(100), Num(10), NumStr(50), outcomes, prices, NoTokens)>>)

NormalizeCatalogs ==
    {{TaggedEvent(tags, hint)} : tags \in TagLists, hint \in Hints}
    \cup {{PricedEvent(o, p)} : o \in OutcomeLists, p \in PriceLists}

InitNormalize ==
    /\ InitSched
    /\ InitDb
    /\ store = <<>>
    /\ now = T0
    /\ catalog \in NormalizeCatalogs
    /\ InitOther

NextNormalize ==
    \/ \E r \in ReadIds, params \in EnrichParams : GetMarketsCall(r, params)
    \/ \E r \in ReadIds : GetMarketsFetched(r)

SpecNormalize == InitNormalize /\ [][NextNormalize]_vars

(***************************************************************************)
(* Claims                                                                  *)
(***************************************************************************)
\* the sync function of callback i has started and not yet returned or thrown
RunInProgress(i) == run[i].pc \in {"fetch", "events", "markets", "logSuccess", "logFailed"}

RowsOf(i) == {k \in 1..Len(syncLog) : syncLog[k].run = i}

\* C1: at most one run of syncMarketsFromPolymarket is in progress at any time; a
\* trigger that fires while isRunning is true returns without starting a run
\* (no other state changes, no SyncLog row), and is never started later.
C1_SingleFlight ==
    /\ [](Cardinality({i \in RunIds : RunInProgress(i)}) <= 1)
    /\ [](\A i \in RunIds : run[i].pc = "skipped" => RowsOf(i) = {})
    /\ [][\A i \in RunIds :
            /\ (run[i].pc = "idle" /\ run'[i].pc # "idle" /\ isRunning) =>
                  /\ run'[i].pc = "skipped"
                  /\ isRunning'
                  /\ \A j \in RunIds \ {i} : run'[j] = run[j]
                  /\ UNCHANGED <<syncLog, dbEvents, dbMarkets, store>>
            /\ run[i].pc = "skipped" => run'[i] = run[i]]_vars

\* C1 witness: a trigger was skipped while a run is in progress
C1_Witness ==
    \E i, j \in RunIds : run[i].pc = "skipped" /\ RunInProgress(j)

\* C6 (as stated): every run that has terminated (returned or thrown) has written
\* exactly one SyncLog row.
C6_ExactlyOneRow ==
    \A i \in RunIds : run[i].pc \in {"returned", "threw"} => Cardinality(RowsOf(i)) = 1

\* C6 (amended): a run writes no row before it terminates and at most one in all;
\* a run that returned wrote one success row carrying its count; a run that threw
\* the error of the rejected success write wrote one failed row carrying that
\* error; a run whose failed-row write was rejected too wrote no row and threw
\* that rejection.
C6_OneOutcomeRow ==
    \A i \in RunIds :
        /\ Cardinality(RowsOf(i)) <= 1
        /\ run[i].pc \in {"fetch", "events", "markets", "logSuccess", "logFailed"} =>
              RowsOf(i) = {}
        /\ run[i].pc = "returned" =>
              \E k \in RowsOf(i) : /\ syncLog[k].status = "success"
                                   /\ syncLog[k].count = Succeeded(run[i].task)
        /\ (run[i].pc = "threw" /\ run[i].thrown = "successLogError") =>
              \E k \in RowsOf(i) : /\ syncLog[k].status = "failed"
                                   /\ syncLog[k].error = "successLogError"
        /\ (run[i].pc = "threw" /\ run[i].thrown # "successLogError") =>
              /\ RowsOf(i) = {}
              /\ run[i].thrown = "failedLogError"

\* C6 witness: a run threw after recording its failed row, with some upserts done
C6_Witness ==
    \E i \in RunIds :
        /\ run[i].pc = "threw"
        /\ \E k \in RowsOf(i) : syncLog[k].status = "failed" /\ syncLog[k].count > 0

\* C7: in one sync run a rejected market upsert neither stops the other upserts
\* nor fails the run: the run reaches its outcome write only with every upsert
\* of the batch settled, with count = the number of fulfilled upserts, and it
\* throws only when a SyncLog write was rejected; its success row carries that
\* count.
C7_UpsertFailureIsolated ==
    \A i \in RunIds :
        /\ run[i].pc \in {"logSuccess", "logFailed", "returned", "threw"} =>
              /\ Len(run[i].task) = Len(run[i].all.markets)
              /\ \A t \in 1..Len(run[i].task) : Settled(run[i].task[t])
              /\ run[i].count = Succeeded(run[i].task)
              /\ run[i].thrown \in {"none", "successLogError", "failedLogError"}
        /\ \A k \in RowsOf(i) :
              (syncLog[k].status = "success" /\ run[i].pc = "returned") =>
                 syncLog[k].count = Succeeded(run[i].task)

\* C7 witness: a run returned with a success row although one upsert was rejected,
\* and another market of the batch was created
C7_Witness ==
    \E i \in RunIds :
        /\ run[i].pc = "returned"
        /\ \E t \in 1..Len(run[i].task) : run[i].task[t].pc = "rejected"
        /\ \E t \in 1..Len(run[i].task) : run[i].task[t].res = "created"
        /\ \E k \in RowsOf(i) : syncLog[k].status = "success" /\ syncLog[k].count >= 1


\* C2 (as stated): a getOrSet call that found an entry whose expiry had not
\* passed returns the stored value without invoking the producer; one that found
\* no entry, or an expired one (deleted by the lookup), invokes the producer,
\* and when the producer returns its result is stored under the key with expiry
\* now + ttl and returned.
C2_HitOrMiss ==
    /\ [](\A c \in CallIds :
            /\ call[c].startEntry = "fresh" =>
                  /\ ~call[c].invoked
                  /\ call[c].pc = "done" /\ call[c].result = call[c].startData
            /\ call[c].startEntry \in {"absent", "expired"} => call[c].invoked)
    /\ [][\A c \in CallIds :
            /\ (call[c].pc = "idle" /\ call'[c].pc # "idle"
                /\ call'[c].startEntry = "expired") =>
                  call'[c].key \notin DOMAIN store'
            /\ (call[c].pc = "fetching" /\ call'[c].pc = "done") =>
                  /\ store'[call[c].key] =
                        [data |-> call'[c].result,
                         expiresAt |-> now + call[c].ttl * 1000]
                  /\ call'[c].result # NoValue]_vars


\* C9 (as stated): every Upstream Client operation whose HTTP exchange failed in
\* transport ends by throwing to its caller, and so never ends like an exchange
\* that succeeded with an absent or empty result.
C9_TransportFailurePropagates ==
    \A r \in ReqIds :
        (up[r].pc \in {"returned", "threw"} /\ up[r].resp = "fail") =>
            /\ up[r].pc = "threw"
            /\ \A body \in Bodies : UpstreamOutcome(up[r].op, body).pc # up[r].pc


\* the batch run i has assembled
Batch(i) == run[i].all.markets

HasTag(m, tag) == \E k \in 1..Len(m.tags) : m.tags[k] = tag

\* C3 (as stated): no market that carries the tag "Recurring", on itself or on
\* its parent event, is in a getMarkets result or in the batch of a sync run.
C3_RecurringNeverAdmitted ==
    /\ \A r \in ReadIds :
         (rd[r].op = "getMarkets" /\ rd[r].pc = "done") =>
            \A k \in 1..Len(rd[r].result.items) :
                ~HasTag(rd[r].result.items[k], TagRecurring)
    /\ \A i \in RunIds :
         \A k \in 1..Len(Batch(i)) : ~HasTag(Batch(i)[k], TagRecurring)


\* the candidates of a batch: the markets of the fetched events that pass the
\* admission test of the read path or of the sync path, normalized, in fetch order
RECURSIVE CandidatesOfEvent(_, _, _, _, _)
CandidatesOfEvent(event, j, sync, category, t) ==
    IF j > Len(event.markets) THEN <<>>
    ELSE (IF (IF sync THEN SyncAdmits(event.markets[j], event)
              ELSE ProcessAdmits(event.markets[j], event, category, t))
          THEN <<transformEventMarket(event.markets[j], event)>>
          ELSE <<>>) \o CandidatesOfEvent(event, j + 1, sync, category, t)

RECURSIVE Candidates(_, _, _, _)
Candidates(events, sync, category, t) ==
    IF events = <<>> THEN <<>>
    ELSE (IF Head(events).closed \/ Head(events).archived THEN <<>>
          ELSE CandidatesOfEvent(Head(events), 1, sync, category, t))
         \o Candidates(Tail(events), sync, category, t)

\* the candidates whose identity is not in seen and occurs at no earlier
\* candidate, in order
RECURSIVE FirstOccurrencesFrom(_, _, _)
FirstOccurrencesFrom(cands, seen, k) ==
    IF k > Len(cands) THEN <<>>
    ELSE (IF cands[k].id \notin seen /\ \A j \in 1..(k - 1) : cands[j].id # cands[k].id
          THEN <<cands[k]>> ELSE <<>>) \o FirstOccurrencesFrom(cands, seen, k + 1)

DistinctIds(markets) ==
    \A j, k \in 1..Len(markets) : markets[j].id = markets[k].id => j = k

IdsOf(markets) == {markets[k].id : k \in 1..Len(markets)}

ReadCandidates(r) ==
    Candidates(rd[r].events, FALSE, ProcessCategory(rd[r].params), rd[r].at)

\* C4: no two markets admitted into one batch have the same canonical identity,
\* in one processEvents call and across the categories of one sync run, and the
\* batch is exactly the first occurrence of each identity among the candidates,
\* in fetch order; a run's batch only grows at its end.
C4_FirstOccurrenceKept ==
    /\ [](\A r \in ReadIds :
            rd[r].pc \in {"done", "ws"} =>
                /\ DistinctIds(rd[r].all)
                /\ rd[r].all = FirstOccurrencesFrom(ReadCandidates(r), {}, 1))
    /\ [](\A i \in RunIds :
            /\ DistinctIds(Batch(i))
            /\ run[i].all.ids = IdsOf(Batch(i)))
    /\ [][\A i \in RunIds :
            (run[i].pc = "fetch" /\ run'[i] # run[i]) =>
                \E resp \in Responses :
                    run'[i].all.markets =
                        Batch(i) \o FirstOccurrencesFrom(
                                        Candidates(resp, TRUE, "All", now),
                                        IdsOf(Batch(i)), 1)]_vars

\* a processEvents call met one identity three times and kept its first record
C4_Witness ==
    \E r \in ReadIds :
        /\ rd[r].pc = "done" /\ ~rd[r].hit
        /\ LET cands == ReadCandidates(r)
           IN \E a, b, c \in 1..Len(cands) :
                /\ a < b /\ b < c
                /\ cands[a].id = cands[b].id /\ cands[b].id = cands[c].id
                /\ cands[a] # cands[b] /\ cands[b] # cands[c]
                /\ \E k \in 1..Len(rd[r].all) : rd[r].all[k] = cands[a]

\* the admission rules the claim lists, for a raw market of an event at time t
ListedRules(market, event, t) ==
    /\ ~event.closed /\ ~event.archived
    /\ market.active /\ ~market.closed
    /\ ~isRecurringMarket(market, Unique(event.tags \o market.tags))
    /\ ~(market.endDate # NoDate /\ market.endDate - t > 0
         /\ market.endDate - t < MIN_REMAINING_MS)
    /\ ~(market.endDate # NoDate /\ market.endDate < t
         /\ safeFloat(market.volume24hr) = 0)

\* C5 (as stated): every market in the batch a sync run persists is the record
\* of a catalog market that passes the admission rules of the on-demand read:
\* parent event not closed or archived, market active and not closed, not
\* recurring, not ending within the hour, not expired with zero 24h volume.
C5_SyncAppliesAdmissionRules ==
    \A i \in RunIds : \A k \in 1..Len(Batch(i)) :
        \E e \in catalog : \E j \in 1..Len(e.markets) :
            /\ transformEventMarket(e.markets[j], e) = Batch(i)[k]
            /\ ListedRules(e.markets[j], e, now)


\* a read that went through enrichWithRealPrices with a non-empty batch
WentThroughEnrichment(r) == rd[r].pc = "done" /\ ~rd[r].hit /\ rd[r].pre # <<>>

NoLongTokenId(markets) ==
    \A k \in 1..Len(markets) : \A j \in 1..Len(markets[k].tokens) :
        Len(markets[k].tokens[j].token_id) <= 10

\* C8: enrichWithRealPrices never raises (a read that threw never reached it);
\* when no token id of the batch is longer than 10 characters no streaming
\* session is created; and when the session was not created, failed or ended
\* with zero snapshots received, every market comes back with the
\* outcomePrices and spread it had.
C8_EnrichDegradesSilently ==
    \A r \in ReadIds :
        /\ rd[r].pc = "threw" => (rd[r].pre = <<>> /\ rd[r].ws.state = "none")
        /\ NoLongTokenId(rd[r].pre) =>
              (rd[r].ws.state = "none" /\ rd[r].ws.prices = <<>>)
        /\ (WentThroughEnrichment(r) /\ Len(rd[r].ws.prices) = 0) =>
              /\ Len(rd[r].result.items) = Len(rd[r].pre)
              /\ \A k \in 1..Len(rd[r].pre) :
                    /\ rd[r].result.items[k].outcomePrices = rd[r].pre[k].outcomePrices
                    /\ rd[r].result.items[k].spread = rd[r].pre[k].spread

\* a session was opened and ended with no snapshot; the markets came back as
\* they were
C8_Witness ==
    \E r \in ReadIds :
        /\ WentThroughEnrichment(r)
        /\ rd[r].ws.state = "closed" /\ Len(rd[r].ws.prices) = 0
        /\ rd[r].result.items = rd[r].pre

IsCanonical(m) == "outcomePrices" \in DOMAIN m

\* C10 (as stated): every market returned by getMarkets or getMarketDetail has
\* every key of its outcomePrices map in its outcomes list.
C10_PriceKeysAreOutcomes ==
    \A r \in ReadIds :
        rd[r].pc = "done" =>
            \A k \in 1..Len(rd[r].result.items) :
                LET m == rd[r].result.items[k]
                IN IsCanonical(m) =>
                     \A key \in ObjKeys(m.outcomePrices) :
                         \E j \in 1..Len(m.outcomes) : m.outcomes[j] = key

\* the raw records a canonical market of a result was built from
SourcesOf(m) ==
    {c \in CatalogMarkets :
        /\ c.k <= Len(c.event.markets)
        /\ transformEventMarket(c.event.markets[c.k], c.event) = m}

\* prices.filter(p => !isNaN(parseFloat(p))).length
RECURSIVE ParsedCount(_)
ParsedCount(prices) ==
    IF prices = <<>> THEN 0
    ELSE (IF Head(prices).t \in {"num", "str"} THEN 1 ELSE 0) + ParsedCount(Tail(prices))

\* C11 (as stated): for a market whose outcomes and outcomePrices are JSON
\* arrays, the price map the normalizer builds has its keys among the outcomes
\* and as many entries as min(number of outcomes, number of prices that parse).
C11_PriceMapSize ==
    \A r \in ReadIds :
        rd[r].pc = "done" =>
            \A k \in 1..Len(rd[r].pre) : \A c \in SourcesOf(rd[r].pre[k]) :
                LET raw == c.event.markets[c.k]
                    outcomes == raw.outcomes.items
                    built == rd[r].pre[k].outcomePrices
                IN (raw.outcomes.kind = "array" /\ raw.outcomePrices.kind = "array") =>
                      /\ ObjKeys(built) \subseteq {outcomes[j] : j \in 1..Len(outcomes)}
                      /\ Len(built) = Min(Len(outcomes),
                                          ParsedCount(raw.outcomePrices.items))

C14_MinRemainingRule ==
    \A r \in ReadIds :
        (rd[r].op = "getMarkets" /\ rd[r].pc \in {"done", "ws"}) =>
            \A e \in catalog : \A j \in 1..Len(e.markets) :
                LET m == e.markets[j]
                    cat == ProcessCategory(rd[r].params)
                    left == m.endDate - rd[r].at
                IN /\ (m.endDate # NoDate /\ left > 0 /\ left < 60 * 60 * 1000) =>
                        /\ ~shouldShowMarket(m, cat, rd[r].at)
                        /\ \A k \in 1..Len(rd[r].all) :
                              rd[r].all[k].polymarketId # m.id
                   /\ (m.endDate # NoDate /\ left >= 60 * 60 * 1000) =>
                        (shouldShowMarket(m, cat, rd[r].at)
                           <=> shouldShowMarket([m EXCEPT !.endDate = NoDate], cat,
                                                rd[r].at))

\* a read left out a fetched market that ends in 30 minutes and returned one
\* that ends in two hours
C14_Witness ==
    \E r \in ReadIds :
        /\ rd[r].op = "getMarkets" /\ rd[r].pc = "done" /\ ~rd[r].hit
        /\ \E k \in 1..Len(rd[r].result.items) :
             rd[r].result.items[k].endDate = rd[r].at + 2 * 60 * 60 * 1000
        /\ \E e \in catalog : \E j \in 1..Len(e.markets) :
             /\ e.markets[j].endDate = rd[r].at + 30 * 60 * 1000
             /\ \E k \in 1..Len(rd[r].events) : rd[r].events[k] = e

\* C15 (as stated): no write of a sync run lowers the lastSyncedAt of a
\* persisted market: each row's value after a step is at least its value before.
C15_LastSyncedAtMonotonic ==
    [][\A old \in dbMarkets : \A new \in dbMarkets' :
          new.id = old.id => new.lastSyncedAt >= old.lastSyncedAt]_vars

\* C20 (as stated): an insert of a sync run is only ever in flight while no row
\* has its identity or its slug, so that it cannot violate either constraint,
\* however the upserts of the batch are interleaved.
C20_InsertNeverCollides ==
    \A i \in RunIds : \A t \in 1..Len(run[i].task) :
        run[i].task[t].pc = "create" =>
            ~\E r \in dbMarkets : \/ r.id = Batch(i)[t].id
                                  \/ r.slug = Batch(i)[t].slug

IsMarketKey(k) == StartsWith(k, PrefixMarkets) \/ StartsWith(k, PrefixMarket)

\* C16: the step in which a sync run leaves its upsert batch removes from the
\* cache exactly the entries whose key starts with "markets:" or "market:";
\* every other entry ("orderbook:", "price-history:") stays as it is.
C16_SyncInvalidatesMarketKeys ==
    [][\A i \in RunIds :
          (run[i].pc = "markets" /\ run'[i].pc # "markets") =>
              /\ DOMAIN store' = {k \in DOMAIN store : ~IsMarketKey(k)}
              /\ \A k \in DOMAIN store' : store'[k] = store[k]]_vars

\* a run has left its batch; the market list a call had stored is gone, the
\* market detail too, and the order book and the price history are still cached
C16_Witness ==
    \E i \in RunIds : \E c, d \in CallIds :
        /\ run[i].pc = "logSuccess"
        /\ call[c].pc = "done" /\ StartsWith(call[c].key, PrefixMarkets)
        /\ call[d].pc = "done" /\ StartsWith(call[d].key, PrefixMarket)
        /\ \A k \in DOMAIN store : ~IsMarketKey(k)
        /\ \E k \in DOMAIN store : StartsWith(k, PrefixOrderbook)
        /\ \E k \in DOMAIN store : StartsWith(k, PrefixPriceHistory)

Precedence == <<"Crypto", "Politics", "Sports", "Economy", "Technology", "Culture">>

\* a keyword of the j-th category occurs in the text
KeywordHit(text, j) ==
    \E w \in 1..Len(CategoryKeywords[j].keywords) :
        Includes(text, CategoryKeywords[j].keywords[w])

\* C17: the category of a normalized market is a function of its tag labels and
\* the category hint of its event: the first of Crypto, Politics, Sports,
\* Economy, Technology, Culture that has a keyword occurring in the lower-cased
\* labels and hint joined by spaces, and Trending when none has; so it is one of
\* seven labels ("bitcoin halving odds" gives Crypto, "NBA Finals winner"
\* Sports, "Weather" Trending).
C17_CategoryByPrecedence ==
    \A r \in ReadIds : \A k \in 1..Len(rd[r].pre) : \A e \in catalog :
        e.id = rd[r].pre[k].eventId =>
            LET m == rd[r].pre[k]
                text == ToLower(JoinSpace(Append(m.tags, e.category)))
            IN /\ m.category \in {Precedence[j] : j \in 1..Len(Precedence)}
                                     \cup {"Trending"}
               /\ \A j \in 1..Len(Precedence) :
                     /\ CategoryKeywords[j].name = Precedence[j]
                     /\ m.category = Precedence[j] <=>
                           /\ KeywordHit(text, j)
                           /\ \A i \in 1..(j - 1) : ~KeywordHit(text, i)
               /\ m.category = "Trending" <=>
                     \A j \in 1..Len(Precedence) : ~KeywordHit(text, j)
               /\ (m.tags = <<TextBitcoinHalvingOdds>> /\ e.category = <<>>) =>
                     m.category = "Crypto"
               /\ (m.tags = <<TextNbaFinalsWinner>> /\ e.category = <<>>) =>
                     m.category = "Sports"
               /\ (m.tags = <<TextWeather>> /\ e.category = <<>>) =>
                     m.category = "Trending"

\* a read classified a market labelled "Elections" and "NBA Finals winner", with
\* the hint "Sports", as Politics
C17_Witness ==
    \E r \in ReadIds : \E e \in catalog :
        /\ rd[r].pc = "done" /\ ~rd[r].hit
        /\ e.category = TextSports
        /\ Len(rd[r].result.items) = 1
        /\ rd[r].result.items[1].tags = <<TextElections, TextNbaFinalsWinner>>
        /\ rd[r].result.items[1].category = "Politics"

\* the tag id the claim gives each static tag category
ClaimedTagId ==
    [Politics |-> 2, Crypto |-> 21, Economy |-> 120, Technology |-> 1401,
     Culture |-> 596]

\* C18 (as stated): the /events request of a getMarkets read of Politics,
\* Crypto, Economy, Technology or Culture carries the tag id 2, 21, 120, 1401 or
\* 596 of the category and related_tags = true.
C18_StaticCategoryTagFetch ==
    \A r \in ReadIds :
        (/\ rd[r].op = "getMarkets" /\ ~rd[r].hit /\ ~Searching(rd[r].params)
         /\ rd[r].pc \in {"fetch", "done", "ws", "threw"}
         /\ rd[r].params.category \in DOMAIN ClaimedTagId) =>
            /\ rd[r].req.tag_id = ClaimedTagId[rd[r].params.category]
            /\ rd[r].req.related_tags = "true"

\* C19: a getMarkets read of the view Breaking returns markets in order of
\* non-increasing volume24h, and none of them has a volume24h of zero.
C19_BreakingByVolume24h ==
    \A r \in ReadIds :
        (/\ rd[r].op = "getMarkets" /\ rd[r].pc = "done"
         /\ rd[r].params.category = "Breaking" /\ ~Searching(rd[r].params)) =>
            LET items == rd[r].result.items
            IN /\ \A k \in 1..Len(items) : items[k].volume24h > 0
               /\ \A j, k \in 1..Len(items) :
                    j < k => items[j].volume24h >= items[k].volume24h

\* a Breaking read returned two markets in the reverse of their fetch order and
\* left out an admitted market without 24h volume
C19_Witness ==
    \E r \in ReadIds :
        /\ rd[r].op = "getMarkets" /\ rd[r].pc = "done" /\ ~rd[r].hit
        /\ rd[r].params.category = "Breaking"
        /\ Len(rd[r].result.items) >= 2
        /\ rd[r].result.items[1].volume24h > rd[r].result.items[2].volume24h
        /\ \E a, b, c \in 1..Len(rd[r].all) :
             /\ a < b
             /\ rd[r].all[a] = rd[r].result.items[2]
             /\ rd[r].all[b] = rd[r].result.items[1]
             /\ rd[r].all[c].volume24h = 0

\* C21 (as stated): a session is pending only while some requested id has no
\* book snapshot (it resolves as soon as every requested id has one, or on the
\* timeout, an error or a close); once it has resolved the socket is closed,
\* the timeout and ping timers are cleared, the awaiting read has its result,
\* and every snapshot is for a requested id.
C21_SessionResolves ==
    \A r \in ReadIds :
        LET ws == rd[r].ws
        IN /\ rd[r].pc = "ws" =>
                \E k \in 1..Len(ws.tokenIds) : ~ObjHas(ws.prices, ws.tokenIds[k])
           /\ ws.state = "closed" =>
                /\ rd[r].pc = "done"
                /\ ws.timeout = "cleared" /\ ws.ping = "cleared"
                /\ \A k \in 1..Len(ws.prices) : InTokenIds(r, ws.prices[k].k)

\* C22: when a sync run started by a cron tick or by the startup timer has
\* returned or thrown, its callback ends normally with the flag cleared; and a
\* callback that fires when every earlier one has ended (or was skipped) starts
\* a run, whether or not an earlier run threw.
C22_FailedRunDoesNotBlock ==
    [][\A i \in RunIds :
          /\ (run[i].pc \in {"returned", "threw"} /\ run'[i] # run[i]) =>
                (run'[i].pc = "done" /\ ~isRunning')
          /\ (/\ run[i].pc = "idle" /\ run'[i].pc # "idle"
              /\ \A j \in RunIds : j < i => run[j].pc \in {"done", "skipped"}) =>
                run'[i].pc = "fetch"]_vars

\* a run threw, its callback ended, and a later cron tick started a run
C22_Witness ==
    \E i, j \in RunIds :
        /\ i < j
        /\ run[i].pc = "done" /\ run[i].thrown # "none"
        /\ run[j].kind = "cron" /\ run[j].pc = "fetch"

\* C23: in a sync run the market tasks are issued only when no event upsert of
\* the batch is pending, and the markets table is written only by a run whose
\* event upserts have all settled.
C23_MarketsAfterEvents ==
    [][/\ \A i \in RunIds :
            (run[i].task = <<>> /\ run'[i].task # <<>>) =>
                (run[i].pc = "events" /\ run[i].evPending = {})
       /\ dbMarkets' # dbMarkets =>
            \E i \in RunIds : /\ run[i].pc = "markets" /\ run[i].evPending = {}
                              /\ run'[i].task # run[i].task]_vars

\* a run over a batch with two parent events has inserted a market
C23_Witness ==
    \E i \in RunIds :
        /\ Cardinality(uniqueEvents(run[i].all.markets)) >= 2
        /\ \E t \in 1..Len(run[i].task) :
             /\ run[i].task[t].res = "created"
             /\ \E r \in dbMarkets : r.id = run[i].all.markets[t].id
             /\ \E e \in dbEvents : e.id = run[i].all.markets[t].eventId

\* C24: a getOrSet call that starts on a missing or expired key while another
\* call for the same key is awaiting its producer invokes its own producer;
\* the producer of the other call has been invoked and stays awaited.
C24_NoStampedeProtection ==
    [][\A c, d \in CallIds :
          (/\ c # d
           /\ call[c].pc = "idle" /\ call'[c].pc # "idle"
           /\ call'[c].startEntry \in {"absent", "expired"}
           /\ call[d].pc = "fetching" /\ call[d].key = call'[c].key) =>
              /\ call'[c].pc = "fetching" /\ call'[c].invoked
              /\ call'[d].pc = "fetching" /\ call'[d].invoked]_vars

\* two calls for one key await their producers at once, the later one having
\* found an expired entry
C24_Witness ==
    \E c, d \in CallIds :
        /\ c # d
        /\ call[c].pc = "fetching" /\ call[d].pc = "fetching"
        /\ call[c].key = call[d].key
        /\ call[c].invoked /\ call[d].invoked
        /\ call[c].startEntry = "expired"

\* C25 (as stated): the tokens of a built market pair the instrument ids with
\* the outcome names index by index, and of the ids beyond the outcome names the
\* first is named "Yes" and the second "No".
C25_TokenPairsAsStated ==
    \A r \in ReadIds :
        (rd[r].op = "getMarkets" /\ rd[r].pc \in {"ws", "done"}) =>
            \A k \in 1..Len(rd[r].pre) : \A c \in SourcesOf(rd[r].pre[k]) :
                LET ids == parseJsonArray(c.event.markets[c.k].clobTokenIds)
                    names == parseJsonArray(c.event.markets[c.k].outcomes)
                    tokens == rd[r].pre[k].tokens
                IN /\ Len(tokens) = Len(ids)
                   /\ \A i \in 1..Len(ids) :
                        /\ tokens[i].token_id = ids[i]
                        /\ i <= Len(names) => tokens[i].outcome = names[i]
                        /\ i = Len(names) + 1 => tokens[i].outcome = "Yes"
                        /\ i = Len(names) + 2 => tokens[i].outcome = "No"

\* C25 (amended): the tokens of a built market pair the instrument ids with the
\* outcome names index by index, and an id at an index beyond the outcome names
\* is named "Yes" when it is the first id of the list and "No" otherwise.
C25_TokenPairs ==
    \A r \in ReadIds :
        (rd[r].op = "getMarkets" /\ rd[r].pc \in {"ws", "done"}) =>
            \A k \in 1..Len(rd[r].pre) : \A c \in SourcesOf(rd[r].pre[k]) :
                LET ids == parseJsonArray(c.event.markets[c.k].clobTokenIds)
                    names == parseJsonArray(c.event.markets[c.k].outcomes)
                    tokens == rd[r].pre[k].tokens
                IN /\ Len(tokens) = Len(ids)
                   /\ \A i \in 1..Len(ids) :
                        /\ tokens[i].token_id = ids[i]
                        /\ i <= Len(names) => tokens[i].outcome = names[i]
                        /\ (i > Len(names) /\ i = 1) => tokens[i].outcome = "Yes"
                        /\ (i > Len(names) /\ i > 1) => tokens[i].outcome = "No"

\* a market with two instrument ids and one outcome name has been built: its
\* second token, the first without a name, is "No"
C25_Witness ==
    \E r \in ReadIds :
        /\ rd[r].op = "getMarkets" /\ rd[r].pc \in {"ws", "done"}
        /\ \E k \in 1..Len(rd[r].pre) : \E c \in SourcesOf(rd[r].pre[k]) :
             /\ Len(parseJsonArray(c.event.markets[c.k].outcomes)) = 1
             /\ Len(rd[r].pre[k].tokens) = 2
             /\ rd[r].pre[k].tokens[1].outcome = "Up"
             /\ rd[r].pre[k].tokens[2].outcome = "No"

\* the display price of a snapshot: the midpoint under a spread below 0.02,
\* else the last price
DisplayOf(snap) ==
    IF Lt(Minus(snap.bestAsk, snap.bestBid), N(TightSpread)) THEN snap.midpoint
    ELSE snap.lastPrice

\* C26 (as stated): an outcome price that enrichment has written over is above
\* zero, and a token of that outcome has a snapshot whose display price (the
\* midpoint when bestAsk - bestBid < 0.02, else the last price) is above zero.
C26_DisplayPriceOverwrite ==
    \A r \in ReadIds :
        (/\ rd[r].pc = "done" /\ rd[r].ws.state = "closed"
         /\ Len(rd[r].result.items) = Len(rd[r].pre)) =>
            \A k \in 1..Len(rd[r].pre) :
                LET before == rd[r].pre[k].outcomePrices
                    after == rd[r].result.items[k].outcomePrices
                    tokens == rd[r].pre[k].tokens
                IN \A j \in 1..Len(after) :
                     LET key == after[j].k
                         changed == \/ ~ObjHas(before, key)
                                    \/ before[IndexOf(before, key)].v # after[j].v
                     IN changed =>
                          /\ after[j].v > 0
                          /\ \E t \in 1..Len(tokens) :
                               /\ tokens[t].outcome = key
                               /\ ObjHas(rd[r].ws.prices, tokens[t].token_id)
                               /\ Gt(DisplayOf(rd[r].ws.prices[
                                        IndexOf(rd[r].ws.prices, tokens[t].token_id)].v),
                                     N(0))

\* the store holds null under key and the entry has not expired
HoldsNull(key) ==
    /\ key \in DOMAIN store
    /\ store[key].data = JsNull
    /\ now <= store[key].expiresAt

C28_StoreAfterInvalidation ==
    [][\A c \in CallIds :
          (/\ call[c].pc = "fetching" /\ call'[c].pc = "done"
           /\ IsMarketKey(call[c].key)
           /\ call[c].startEpoch < InvalidationsDone) =>
              /\ call[c].key \in DOMAIN store'
              /\ store'[call[c].key].data = call'[c].result]_vars

\* the sync run has finished and the cache holds, under a market key, the
\* result of a call that had started before the run's invalidation
C28_Witness ==
    \E c \in CallIds :
        /\ \A i \in RunIds : run[i].pc = "done"
        /\ call[c].pc = "done" /\ call[c].invoked
        /\ call[c].startEpoch < InvalidationsDone
        /\ IsMarketKey(call[c].key)
        /\ call[c].key \in DOMAIN store
        /\ store[call[c].key].data = call[c].result

\* C29: a getOrSet call whose producer throws ends by throwing and changes the
\* store in neither of its steps, except that its lookup removes the entry of
\* its key when that entry has expired; a call on the key that starts after
\* the failure and finds no entry invokes the producer.
C29_ThrowStoresNothing ==
    [][\A c \in CallIds :
          /\ (call[c].pc = "fetching" /\ call'[c].pc = "threw") =>
                /\ store' = store
                /\ call'[c].result = NoValue
          /\ (call[c].pc = "idle" /\ call'[c].pc = "fetching") =>
                /\ DOMAIN store' =
                      IF call'[c].startEntry = "expired"
                      THEN DOMAIN store \ {call'[c].key} ELSE DOMAIN store
                /\ \A k \in DOMAIN store' : store'[k] = store[k]
          /\ (/\ call[c].pc = "idle" /\ call'[c].pc # "idle"
              /\ call'[c].startEntry = "absent"
              /\ \E d \in CallIds : call[d].pc = "threw" /\ call[d].key = call'[c].key) =>
                (call'[c].pc = "fetching" /\ call'[c].invoked)]_vars

\* a call found an expired entry, which its lookup removed, and its producer
\* threw; the key has no entry, and a later call on it awaits its producer
C29_Witness ==
    \E c, d \in CallIds :
        /\ call[d].pc = "threw" /\ call[d].startEntry = "expired"
        /\ call[d].key \notin DOMAIN store
        /\ call[c].pc = "fetching" /\ call[c].key = call[d].key
        /\ call[c].startEntry = "absent" /\ call[c].invoked

\* the steps of a run none of whose fetches returned, up to the write of its
\* SyncLog row: a failed fetch moves to the next category, the batch is empty,
\* no upsert is issued and no table row written, and leaving the (empty) batch
\* removes the market entries of the cache and sets the count to 0
NoFetchRunSteps(i) ==
    /\ (run[i].pc = "fetch" /\ run'[i] # run[i] /\ run'[i].noFetch) =>
          /\ run'[i].pc \in {"fetch", "events"}
          /\ run'[i].cat = run[i].cat + 1
    /\ (run'[i].noFetch /\ run'[i].pc # "fetch") =>
          /\ run'[i].all.markets = <<>> /\ run'[i].evPending = {}
          /\ run'[i].task = <<>>
    /\ (run[i].noFetch /\ run'[i] # run[i]) =>
          (dbEvents' = dbEvents /\ dbMarkets' = dbMarkets)
    /\ (run[i].noFetch /\ run[i].pc = "markets" /\ run'[i] # run[i]) =>
          /\ run'[i].pc = "logSuccess" /\ run'[i].count = 0
          /\ DOMAIN store' = {k \in DOMAIN store : ~IsMarketKey(k)}

SuccessRowCountZero(i) == [run |-> i, status |-> "success", count |-> 0, error |-> "none"]

\* C30 (as stated): a sync run none of whose fetches returned skips each failed
\* fetch, upserts nothing, invalidates the market entries of the cache, records
\* a SyncLog row with status success and count 0, and returns: it never throws
\* and never records a failed row.
C30_AllFetchesFailAsStated ==
    [][\A i \in RunIds :
          /\ NoFetchRunSteps(i)
          /\ (run[i].noFetch /\ run[i].pc = "logSuccess" /\ run'[i] # run[i]) =>
                /\ run'[i].pc = "returned"
                /\ syncLog' = Append(syncLog, SuccessRowCountZero(i))
          /\ run'[i].noFetch => run'[i].pc \notin {"logFailed", "threw"}]_vars

\* C30 (amended): a sync run none of whose fetches returned skips each failed
\* fetch, upserts nothing, invalidates the market entries of the cache and
\* issues the write of a SyncLog row with status success and count 0; when that
\* write succeeds the run returns, and when it is rejected the run enters its
\* catch block, records a failed row with count 0 if that write succeeds, and
\* throws.
C30_AllFetchesFail ==
    [][\A i \in RunIds :
          /\ NoFetchRunSteps(i)
          /\ (run[i].noFetch /\ run[i].pc = "logSuccess" /\ run'[i] # run[i]) =>
                \/ /\ run'[i].pc = "returned"
                   /\ syncLog' = Append(syncLog, SuccessRowCountZero(i))
                \/ /\ run'[i].pc = "logFailed" /\ run'[i].thrown = "successLogError"
                   /\ syncLog' = syncLog
          /\ (run[i].noFetch /\ run[i].pc = "logFailed" /\ run'[i] # run[i]) =>
                /\ run'[i].pc = "threw"
                /\ \/ syncLog' = syncLog
                   \/ syncLog' = Append(syncLog, [run |-> i, status |-> "failed",
                                                  count |-> 0,
                                                  error |-> "successLogError"])]_vars

\* a run none of whose fetches returned has returned after writing the success
\* row with count 0, and the market list a call had cached is gone
C30_Witness ==
    \E i \in RunIds : \E c \in CallIds :
        /\ run[i].noFetch /\ run[i].pc = "returned"
        /\ syncLog = <<SuccessRowCountZero(i)>>
        /\ call[c].pc = "done" /\ call[c].invoked
        /\ IsMarketKey(call[c].key) /\ call[c].key \notin DOMAIN store
        /\ call[c].startEpoch < InvalidationsDone

====
